---- MODULE Spec2Model ----
(***************************************************************************)
(* Request orchestration engine of the orthopedic-assistant server:        *)
(* services/orchestrator.py (OrchestratorService), schemas/orchestrator.py *)
(* (ProcessingStep, StepGraph, ProcessingResponse) and services/policies.py*)
(* (StepPolicy, PolicyConfiguration, PolicyService).                       *)
(*                                                                         *)
(* One request is followed from process_request to its return (or to the   *)
(* exception that leaves it).  The coroutine of the request is cut at its  *)
(* awaits: the stage invocation under asyncio.wait_for and the retry       *)
(* sleep.  Floats in [0,1] are hundredths (0.70 is 70).                    *)
(***************************************************************************)
EXTENDS Integers, Sequences, FiniteSets, TLC

VARIABLES
    step_handlers,   \* OrchestratorService.step_handlers: the registered step names
    active_requests, \* OrchestratorService.active_requests: the request ids stored
    active_configs,  \* PolicyService._active_configs: request id -> PolicyConfiguration
    request,         \* the ProcessingRequest being processed, or NoRequest
    step_graph,      \* the StepGraph of the request, or NoGraph
    exec,            \* per step name: where its _execute_step coroutine is, and its attempt
    invoked,         \* per step name: how many times handler(request, step_graph) was called
    pc,              \* where the request's coroutine is in _process_*_mode
    response,        \* the ProcessingResponse returned, or NoResponse
    exception,       \* the exception process_request raised into its caller, or NoException
    faults,          \* stage invocations that raised or timed out so far
    triage_calls,    \* the calls of the triage kernel made so far, with what they returned
    stored_files,    \* StorageService: the file ids store_file returned and still holds
    audit_logs,      \* TelemetryService.audit_logs: the audit entries appended so far
    retry_call,      \* the last retry decision asked of the policy code, or NoRetryCall
    rules_call,      \* the last call of TriageAgent._apply_dynamic_rules, or NoRulesCall
    default_config,  \* PolicyService._default_config
    tasks,           \* per request id: the request a concurrent task constructed its graph
                     \* for, with the config snapshot and the step timeout it read
    touched,         \* per key of _active_configs: the requests it was written or read for
    age              \* of the finished request's graph: "fresh", "aged" once now is more
                     \* than max_age_hours after updated_at, "swept" once a sweep ran since

\* the state of the services beside the orchestrator and the policy registry
services == << triage_calls, stored_files, audit_logs, retry_call, rules_call,
              default_config, tasks, touched, age >>

vars == << step_handlers, active_requests, active_configs, request, step_graph,
           exec, invoked, pc, response, exception, faults, services >>

----------------------------------------------------------------------------
(* Bounds of the model                                                      *)

\* stage invocations of one request that raise or time out
MaxFaults == 2

----------------------------------------------------------------------------
(* Enumerations: schemas/base.py, schemas/orchestrator.py, policies.py      *)

VALIDATE    == "validate"
ROUTE       == "route"
DETECT_HAND == "detect_hand"
DETECT_LEG  == "detect_leg"
TRIAGE      == "triage"
DIAGNOSE    == "diagnose"
REPORT      == "report"
HOSPITALS   == "hospitals"
StepName == { VALIDATE, ROUTE, DETECT_HAND, DETECT_LEG, TRIAGE, DIAGNOSE, REPORT, HOSPITALS }

PENDING == "pending"
RUNNING == "running"
OK      == "ok"
ERROR   == "error"
SKIPPED == "skipped"
TIMEOUT == "timeout"
StepStatus == { PENDING, RUNNING, OK, ERROR, SKIPPED, TIMEOUT }

AUTO     == "auto"
GUIDED   == "guided"
ADVANCED == "advanced"
ProcessingMode == { AUTO, GUIDED, ADVANCED }

HAND    == "hand"
LEG     == "leg"
UNKNOWN == "unknown"
BodyPart == { HAND, LEG, UNKNOWN }

NEVER       == "never"
ONCE        == "once"
EXPONENTIAL == "exponential"
RetryPolicy == { NEVER, ONCE, EXPONENTIAL }

\* Python's None where the other values are strings
None == "None"
\* a key that a dict does not hold
Absent == "absent"

\* An optional number: None, a number (hundredths), or a value that is no number.
NoNum     == [kind |-> "none", val |-> 0]
Num(v)    == [kind |-> "num",  val |-> v]
NotANum   == [kind |-> "str",  val |-> 0]

\* Python truthiness of such a value: None, 0 and 0.0 are falsy.
Truthy(x) == x.kind = "str" \/ (x.kind = "num" /\ x.val # 0)

NoRequest   == [mode |-> None]
NoGraph     == [mode |-> None]
NoResponse  == [request_id |-> None]
NoException == "no exception"
NoRetryCall == [ fn |-> "none" ]
NoRulesCall == [ fn |-> "none" ]
NoTask == [ at |-> "none" ]

\* request ids: the temporary id of _create_step_graph and the graph's own uuid4
TempId == "00000000-0000-0000-0000-000000000000"
ReqId  == "request-1"
\* a second request id
OtherReqId == "request-2"
\* the ids of the requests that are constructed and executed concurrently
ConcurrentIds == { ReqId, OtherReqId }

----------------------------------------------------------------------------
(* Mappings str -> str (step artifacts) as sets of <<key, value>> pairs     *)

\* dict.update(other): the keys of other replace those of d
DictUpdate(d, other) ==
    { p \in d : ~ \E q \in other : q[1] = p[1] } \cup other

----------------------------------------------------------------------------
(* StepPolicy and PolicyConfiguration: services/policies.py                 *)

StepPolicy(t, rp, mr, fatal, skip) ==
    [ timeout_seconds |-> t, retry_policy |-> rp, max_retries |-> mr,
      is_fatal_on_error |-> fatal, can_be_skipped |-> skip ]

\* the characters of the error type names the model uses
Chars(s) ==
    CASE s = "timeout"          -> << "t","i","m","e","o","u","t" >>
      [] s = "connection"       -> << "c","o","n","n","e","c","t","i","o","n" >>
      [] s = "temporary"        -> << "t","e","m","p","o","r","a","r","y" >>
      [] s = "rate_limit"       -> << "r","a","t","e","_","l","i","m","i","t" >>
      [] s = "TimeoutError"     -> << "T","i","m","e","o","u","t","E","r","r","o","r" >>
      [] s = "ConnectionError"  -> << "C","o","n","n","e","c","t","i","o","n",
                                      "E","r","r","o","r" >>
      [] s = "TemporaryFailure" -> << "T","e","m","p","o","r","a","r","y",
                                      "F","a","i","l","u","r","e" >>
      [] s = "RATE_LIMIT"       -> << "R","A","T","E","_","L","I","M","I","T" >>
      [] s = "RateLimitError"   -> << "R","a","t","e","L","i","m","i","t","E","r","r","o","r" >>
      [] s = "TimedOut"         -> << "T","i","m","e","d","O","u","t" >>
      [] s = "ValueError"       -> << "V","a","l","u","e","E","r","r","o","r" >>
      [] s = "TypeError"        -> << "T","y","p","e","E","r","r","o","r" >>
      [] s = ""                 -> << >>

\* str.lower, for the letters of those names
LowerOf ==
    [ c \in { "A", "C", "D", "E", "F", "H", "I", "L", "M", "O", "R", "T", "V" } |->
        CASE c = "A" -> "a" [] c = "C" -> "c" [] c = "D" -> "d" [] c = "E" -> "e"
          [] c = "F" -> "f" [] c = "H" -> "h" [] c = "I" -> "i" [] c = "L" -> "l"
          [] c = "M" -> "m"
          [] c = "O" -> "o" [] c = "R" -> "r" [] c = "T" -> "t" [] c = "V" -> "v" ]

lower(chars) ==
    [ i \in 1..Len(chars) |->
        IF chars[i] \in DOMAIN LowerOf THEN LowerOf[chars[i]] ELSE chars[i] ]

\* err in text
Contains(text, err) ==
    \E i \in 1..(Len(text) - Len(err) + 1) : SubSeq(text, i, i + Len(err) - 1) = err

transient_errors == { "timeout", "connection", "temporary", "rate_limit" }

\* any(err in error_type.lower() for err in transient_errors)
is_transient(error_type) ==
    \E err \in transient_errors : Contains(lower(Chars(error_type)), Chars(err))

\* a ONCE policy that retries at every count below max_retries
should_retry_once_at_any_count(policy, current_retry_count, error_type) ==
    IF policy.retry_policy = NEVER THEN FALSE
    ELSE IF current_retry_count >= policy.max_retries THEN FALSE
    ELSE IF policy.retry_policy = ONCE THEN TRUE
    ELSE is_transient(error_type)

\* a retry decision that does not look at max_retries
should_retry_without_max_retries(policy, current_retry_count, error_type) ==
    IF policy.retry_policy = NEVER THEN FALSE
    ELSE IF policy.retry_policy = ONCE THEN current_retry_count = 0
    ELSE is_transient(error_type)

should_retry(policy, current_retry_count, error_type) ==
    IF policy.retry_policy = NEVER THEN FALSE
    ELSE IF current_retry_count >= policy.max_retries THEN FALSE
    ELSE IF policy.retry_policy = ONCE THEN current_retry_count = 0
    ELSE is_transient(error_type)

\* the default table with the retry of the other stages given to TRIAGE too
_create_default_step_policies_triage_once ==
    [ s \in StepName |->
        CASE s = VALIDATE    -> StepPolicy(5,  NEVER, 0, TRUE,  FALSE)
          [] s = ROUTE       -> StepPolicy(2,  ONCE,  1, TRUE,  FALSE)
          [] s = DETECT_HAND -> StepPolicy(12, ONCE,  1, FALSE, TRUE)
          [] s = DETECT_LEG  -> StepPolicy(12, ONCE,  1, FALSE, TRUE)
          [] s = TRIAGE      -> StepPolicy(2,  ONCE,  1, FALSE, FALSE)
          [] s = DIAGNOSE    -> StepPolicy(5,  ONCE,  1, FALSE, TRUE)
          [] s = REPORT      -> StepPolicy(5,  ONCE,  1, FALSE, TRUE)
          [] s = HOSPITALS   -> StepPolicy(3,  ONCE,  1, FALSE, TRUE) ]

_create_default_step_policies ==
    [ s \in StepName |->
        CASE s = VALIDATE    -> StepPolicy(5,  NEVER, 0, TRUE,  FALSE)
          [] s = ROUTE       -> StepPolicy(2,  ONCE,  1, TRUE,  FALSE)
          [] s = DETECT_HAND -> StepPolicy(12, ONCE,  1, FALSE, TRUE)
          [] s = DETECT_LEG  -> StepPolicy(12, ONCE,  1, FALSE, TRUE)
          [] s = TRIAGE      -> StepPolicy(2,  NEVER, 0, FALSE, FALSE)
          [] s = DIAGNOSE    -> StepPolicy(5,  ONCE,  1, FALSE, TRUE)
          [] s = REPORT      -> StepPolicy(5,  ONCE,  1, FALSE, TRUE)
          [] s = HOSPITALS   -> StepPolicy(3,  ONCE,  1, FALSE, TRUE) ]

\* config.router_threshold, config.detector_score_min, config.max_retries
router_threshold_default   == 70
detector_score_min_default == 35
max_retries_default        == 1
\* config.triage_red_threshold, config.triage_amber_threshold,
\* config.triage_high_confidence_threshold
triage_red_threshold_default             == 80
triage_amber_threshold_default           == 60
triage_high_confidence_threshold_default == 80

\* _generate_config_hash: SHA-256 of the sorted-keys JSON of these fields,
\* kept as the fields themselves (of those a request can change)
_generate_config_hash(c) ==
    [ router_threshold       |-> c.router_threshold,
      detector_score_min     |-> c.detector_score_min,
      triage_red_threshold   |-> c.triage_red_threshold,
      triage_amber_threshold |-> c.triage_amber_threshold,
      triage_red_patterns    |-> c.triage_red_patterns,
      max_retries            |-> c.max_retries,
      step_policies          |-> c.step_policies ]

\* an optional list of strings: a key that is absent, or a list
NoList == [ kind |-> "none", val |-> << >> ]
List(v) == [ kind |-> "list", val |-> v ]

_create_default_red_patterns ==
    << "displaced_fracture", "comminuted_fracture", "open_fracture", "multiple_fractures" >>

\* PolicyConfiguration(...) with __post_init__; of the three pattern lists,
\* which the class treats alike, the model keeps triage_red_patterns
PolicyConfiguration(rt, dsm, red, amber, patterns, mr, policies) ==
    LET red_patterns == IF patterns.kind = "none" THEN _create_default_red_patterns
                        ELSE patterns.val
        c == [ router_threshold |-> rt, detector_score_min |-> dsm,
               triage_red_threshold |-> red, triage_amber_threshold |-> amber,
               triage_red_patterns |-> red_patterns,
               max_retries |-> mr, step_policies |-> policies ]
    IN  [ router_threshold |-> rt, detector_score_min |-> dsm,
          triage_red_threshold |-> red, triage_amber_threshold |-> amber,
          triage_red_patterns |-> red_patterns,
          triage_high_confidence_threshold |->
              triage_high_confidence_threshold_default,
          max_retries |-> mr, step_policies |-> policies,
          config_hash |-> _generate_config_hash(c) ]

_load_default_config ==
    PolicyConfiguration(router_threshold_default, detector_score_min_default,
                        triage_red_threshold_default, triage_amber_threshold_default,
                        NoList, max_retries_default, _create_default_step_policies)

\* get_step_policy: the table holds every StepName, so the fallback policy
\* of the .get is never used
get_step_policy(config, step_name) == config.step_policies[step_name]

\* The steps a key of timeout_overrides names: "detect" is both detectors,
\* a StepName value is that step, anything else is logged and ignored.
OverrideTargets(key) ==
    IF key = "detect" THEN { DETECT_HAND, DETECT_LEG }
    ELSE IF key \in StepName THEN { key }
    ELSE {}

\* the loop over timeout_overrides.items(), in the dict's order
RECURSIVE ApplyTimeouts(_, _)
ApplyTimeouts(policies, items) ==
    IF items = << >> THEN policies
    ELSE LET key     == Head(items)[1]
             timeout == Head(items)[2]
             next == [ s \in StepName |->
                         IF s \in OverrideTargets(key)
                         THEN [ policies[s] EXCEPT !.timeout_seconds = timeout ]
                         ELSE policies[s] ]
         IN  ApplyTimeouts(next, Tail(items))

\* overrides: [router_threshold, detector_score_min, triage_red_threshold,
\*             triage_amber_threshold, max_retries: optional numbers (absent
\*             key = none), triage_red_patterns: an optional list,
\*             timeout_overrides: sequence of <<key, seconds>>,
\*             other_keys: the keys of the dict that no code reads]
apply_overrides(config, overrides) ==
    PolicyConfiguration(
        IF overrides.router_threshold.kind = "none"
            THEN config.router_threshold ELSE overrides.router_threshold.val,
        IF overrides.detector_score_min.kind = "none"
            THEN config.detector_score_min ELSE overrides.detector_score_min.val,
        IF overrides.triage_red_threshold.kind = "none"
            THEN config.triage_red_threshold ELSE overrides.triage_red_threshold.val,
        IF overrides.triage_amber_threshold.kind = "none"
            THEN config.triage_amber_threshold
            ELSE overrides.triage_amber_threshold.val,
        IF overrides.triage_red_patterns.kind = "none"
            THEN List(config.triage_red_patterns) ELSE overrides.triage_red_patterns,
        IF overrides.max_retries.kind = "none"
            THEN config.max_retries ELSE overrides.max_retries.val,
        ApplyTimeouts(config.step_policies, overrides.timeout_overrides))

NoOverrides ==
    [ router_threshold |-> NoNum, detector_score_min |-> NoNum,
      triage_red_threshold |-> NoNum, triage_amber_threshold |-> NoNum,
      triage_red_patterns |-> NoList,
      max_retries |-> NoNum, timeout_overrides |-> << >>, other_keys |-> {} ]

\* a new_config built on the step policy dict of self itself, without .copy():
\* the timeout overrides land in the table of self
apply_overrides_self_shared_table(config, overrides) ==
    [ config EXCEPT !.step_policies =
        ApplyTimeouts(config.step_policies, overrides.timeout_overrides) ]

\* what self is after self.apply_overrides(overrides): new_config gets
\* self.step_policies.copy() and, for a pattern list without an override,
\* self.triage_red_patterns.copy(); the item assignments of the timeout loop
\* and the new config_hash are set on new_config
apply_overrides_self(config, overrides) == config

\* get_config_for_request that applies the overrides in every mode
get_config_for_request_any_mode(mode, overrides) ==
    IF overrides # NoOverrides
    THEN apply_overrides(default_config, overrides)
    ELSE default_config

\* get_config_for_request: the config it binds to request_id and returns
get_config_for_request(mode, overrides) ==
    IF overrides # NoOverrides /\ mode = ADVANCED
    THEN apply_overrides(default_config, overrides)
    ELSE default_config

ConfigOf(request_id) ==
    IF request_id \in DOMAIN active_configs
    THEN active_configs[request_id] ELSE default_config

\* self._default_config after get_config_for_request
get_config_for_request_default(mode, overrides) ==
    IF overrides # NoOverrides /\ mode = ADVANCED
    THEN apply_overrides_self(default_config, overrides)
    ELSE default_config

get_step_timeout(request_id, step_name) ==
    get_step_policy(ConfigOf(request_id), step_name).timeout_seconds

should_retry_step(request_id, step_name, current_retry_count, error_type) ==
    IF step_name = TRIAGE THEN FALSE
    ELSE should_retry(get_step_policy(ConfigOf(request_id), step_name),
                      current_retry_count, error_type)

is_step_fatal_on_error(request_id, step_name) ==
    get_step_policy(ConfigOf(request_id), step_name).is_fatal_on_error

get_detection_thresholds(config) ==
    [ router_threshold |-> config.router_threshold,
      detector_score_min |-> config.detector_score_min ]

\* get_config_metadata(...)['timeouts']
get_config_timeouts(config) ==
    [ s \in StepName |-> config.step_policies[s].timeout_seconds ]

----------------------------------------------------------------------------
(* ProcessingStep and StepGraph: schemas/orchestrator.py                    *)
(* started_at, completed_at and duration_ms are kept as "is populated".     *)

ProcessingStep(step_name) ==
    [ name |-> step_name, status |-> PENDING, confidence |-> NoNum,
      started_at |-> FALSE, completed_at |-> FALSE, duration_ms |-> FALSE,
      error_message |-> None, retry_count |-> 0, artifacts |-> {} ]

start(step) ==
    [ step EXCEPT !.status = RUNNING, !.started_at = TRUE ]

complete(step, confidence, artifacts) ==
    [ step EXCEPT !.status = OK, !.completed_at = TRUE,
                  !.duration_ms = IF step.started_at THEN TRUE ELSE @,
                  !.confidence = IF confidence # NoNum THEN confidence ELSE @,
                  !.artifacts = IF artifacts # {} THEN DictUpdate(@, artifacts) ELSE @ ]

\* fail that drops the message
fail_without_message(step, error_message) ==
    [ step EXCEPT !.status = ERROR, !.completed_at = TRUE,
                  !.duration_ms = IF step.started_at THEN TRUE ELSE @ ]

fail(step, error_message) ==
    [ step EXCEPT !.status = ERROR, !.completed_at = TRUE,
                  !.duration_ms = IF step.started_at THEN TRUE ELSE @,
                  !.error_message = error_message ]

timeout(step) ==
    [ step EXCEPT !.status = TIMEOUT, !.completed_at = TRUE,
                  !.duration_ms = IF step.started_at THEN TRUE ELSE @,
                  !.error_message = "Step timed out" ]

\* skip that records the step as failed
skip_as_failure(step, reason) ==
    [ step EXCEPT !.status = ERROR, !.completed_at = TRUE,
                  !.error_message = reason ]

skip(step, reason) ==
    [ step EXCEPT !.status = SKIPPED, !.completed_at = TRUE,
                  !.error_message = reason ]

\* the reset for a retry in _execute_step
reset_for_retry(step) ==
    [ step EXCEPT !.status = PENDING, !.started_at = FALSE, !.completed_at = FALSE,
                  !.duration_ms = FALSE, !.error_message = None ]

\* index of the first step of that name, 0 when there is none
StepIndex(steps, step_name) ==
    IF \E i \in 1..Len(steps) : steps[i].name = step_name
    THEN CHOOSE i \in 1..Len(steps) :
            /\ steps[i].name = step_name
            /\ \A j \in 1..(i - 1) : steps[j].name # step_name
    ELSE 0

HasStep(sg, step_name) == StepIndex(sg.steps, step_name) # 0

\* StepGraph.get_step, for a name the graph holds
get_step(sg, step_name) == sg.steps[StepIndex(sg.steps, step_name)]

\* the graph after a method of the step of that name gave new_step
WithStep(sg, step_name, new_step) ==
    [ sg EXCEPT !.steps[StepIndex(sg.steps, step_name)] = new_step ]

add_step(sg, step_name) ==
    [ sg EXCEPT !.steps = Append(@, ProcessingStep(step_name)) ]

TerminalStatuses == { OK, ERROR, SKIPPED, TIMEOUT }

is_complete(sg) ==
    \A i \in 1..Len(sg.steps) : sg.steps[i].status \in TerminalStatuses

\* has_fatal_error looking at VALIDATE alone
has_fatal_error_validate_only(sg) ==
    \E i \in 1..Len(sg.steps) :
        /\ sg.steps[i].name = VALIDATE
        /\ sg.steps[i].status = ERROR

has_fatal_error(sg) ==
    \E i \in 1..Len(sg.steps) :
        /\ sg.steps[i].name \in { VALIDATE, ROUTE }
        /\ sg.steps[i].status = ERROR

\* get_failed_steps leaving out the timed-out steps
get_failed_steps_errors_only(sg) ==
    { i \in 1..Len(sg.steps) : sg.steps[i].status = ERROR }

get_failed_steps(sg) ==
    { i \in 1..Len(sg.steps) : sg.steps[i].status \in { ERROR, TIMEOUT } }

----------------------------------------------------------------------------
(* Requests and stage results                                               *)

\* the overrides a request carries: none; a router threshold and a timeout for
\* the alias "detect" in the request's override fields; or the same two in the
\* request's free-form overrides mapping (which is how api/analyze.py passes
\* them)
RequestOverrideValues ==
    { [ router_threshold_override |-> NoNum, timeout_overrides |-> << >>,
        overrides |-> NoOverrides ],
      [ router_threshold_override |-> Num(95),
        timeout_overrides |-> << <<"detect", 1>> >>,
        overrides |-> NoOverrides ],
      [ router_threshold_override |-> NoNum, timeout_overrides |-> << >>,
        overrides |-> [ NoOverrides EXCEPT
                            !.router_threshold = Num(95),
                            !.timeout_overrides = << <<"detect", 1>> >> ] ] }

ProcessingRequest(mode, geolocation, overrides, rto, tos) ==
    [ mode |-> mode, consents_geolocation |-> geolocation, overrides |-> overrides,
      router_threshold_override |-> rto, detector_score_override |-> NoNum,
      timeout_overrides |-> tos ]

\* what a handler returns: a dict (confidence, artifacts, body_part, level;
\* Absent for a missing key) or a value that is no dict
StageResult(confidence, artifacts, body_part, level) ==
    [ is_dict |-> TRUE, confidence |-> confidence, artifacts |-> artifacts,
      body_part |-> body_part, level |-> level ]

NonDictResult ==
    [ is_dict |-> FALSE, confidence |-> NoNum, artifacts |-> {},
      body_part |-> Absent, level |-> Absent ]

\* the <<body_part, confidence>> a ROUTE stage returns: every body part, a
\* missing one and an illegal one with a high confidence, and HAND and LEG with
\* a low, a zero, a missing and a non-numeric confidence
RouteOutputs ==
    ({ HAND, LEG, UNKNOWN, Absent, "foot" } \X { Num(92) })
    \cup ({ HAND } \X { Num(50), Num(0), NoNum, NotANum })
    \cup { << LEG, Num(50) >> }

StageResults(step_name) ==
    CASE step_name = VALIDATE ->
            { StageResult(Num(100), { <<"validation_result", "passed">> }, Absent, Absent) }
      [] step_name = ROUTE ->
            { StageResult(o[2], { <<"routing_result", "img_routing">> }, o[1], Absent) :
                o \in RouteOutputs }
      [] step_name = DETECT_HAND ->
            { StageResult(Num(80), { <<"detections_json", "img_hand_detections">>,
                                     <<"original_image", "img">> }, Absent, Absent) }
      [] step_name = DETECT_LEG ->
            { StageResult(Num(80), { <<"detections_json", "img_leg_detections">>,
                                     <<"original_image", "img">> }, Absent, Absent) }
      [] step_name = TRIAGE ->
            { StageResult(Num(85), { <<"triage_result", "triage_1">> }, Absent, l) :
                l \in { "AMBER", Absent } }
      [] step_name = HOSPITALS ->
            { StageResult(NoNum, {}, Absent, Absent), NonDictResult }
      [] OTHER ->
            { StageResult(NoNum, {}, Absent, Absent) }

\* the exception types a stage raises (type(e).__name__), with str(e)
StageErrors == { "ValueError" }
ErrorText(error_type) == "stage failed: " \o error_type

----------------------------------------------------------------------------
(* OrchestratorService: construction, registration, process_request         *)

Init ==
    /\ step_handlers = {}
    /\ active_requests = {}
    /\ active_configs = [ id \in {} |-> _load_default_config ]
    /\ request = NoRequest
    /\ step_graph = NoGraph
    /\ exec = [ s \in StepName |-> [ at |-> "idle", attempt |-> 0 ] ]
    /\ invoked = [ s \in StepName |-> 0 ]
    /\ pc = "idle"
    /\ response = NoResponse
    /\ exception = NoException
    /\ faults = 0
    /\ triage_calls = << >>
    /\ stored_files = { "img" }
    /\ audit_logs = << >>
    /\ retry_call = NoRetryCall
    /\ rules_call = NoRulesCall
    /\ age = "fresh"
    /\ default_config = _load_default_config
    /\ tasks = [ r \in ConcurrentIds |-> NoTask ]
    /\ touched = [ key \in {} |-> {} ]

\* agents/handlers.py: the handlers the repository defines
STEP_HANDLERS == { VALIDATE, ROUTE, DETECT_HAND, DETECT_LEG, TRIAGE }

\* the handler tables a deployment registers at startup
HandlerTables == { STEP_HANDLERS, { DIAGNOSE, REPORT, HOSPITALS } }

register_step_handler(handlers, step_name) == handlers \cup { step_name }

\* register_all_handlers: register_step_handler for every entry of a table
register_all_handlers(table) ==
    /\ pc = "idle"
    /\ ~ (table \subseteq step_handlers)
    /\ step_handlers' = UNION { register_step_handler(step_handlers, s) : s \in table }
    /\ UNCHANGED << services, active_requests, active_configs, request, step_graph,
                    exec, invoked, pc, response, exception, faults >>

\* the overrides dict _create_step_graph builds from the request
RequestOverrides(req) ==
    [ NoOverrides EXCEPT
        !.router_threshold   = req.router_threshold_override,
        !.detector_score_min = req.detector_score_override,
        !.timeout_overrides  = req.timeout_overrides ]

_create_step_graph(req) ==
    LET policy_config == get_config_for_request(req.mode, RequestOverrides(req))
        graph == [ request_id |-> ReqId, mode |-> req.mode, steps |-> << >>,
                   partial |-> FALSE,
                   config_hash |-> policy_config.config_hash,
                   thresholds |-> get_detection_thresholds(policy_config),
                   timeouts |-> get_config_timeouts(policy_config),
                   detected_body_part |-> None, triage_level |-> None ]
        seeded == add_step(add_step(add_step(add_step(add_step(graph,
                      VALIDATE), ROUTE), TRIAGE), DIAGNOSE), REPORT)
    IN  IF req.consents_geolocation THEN add_step(seeded, HOSPITALS) ELSE seeded

\* exec after _execute_step(step_name) was called
Call(ex, step_name) == [ ex EXCEPT ![step_name] = [ at |-> "called", attempt |-> 0 ] ]

\* process_request up to the first _execute_step of _process_*_mode
process_request(req) ==
    /\ pc = "idle"
    /\ request' = req
    /\ step_graph' = _create_step_graph(req)
    /\ active_requests' = active_requests \cup { ReqId }
    /\ active_configs' =
          LET c == get_config_for_request(req.mode, RequestOverrides(req))
          IN  [ id \in DOMAIN active_configs \cup { TempId, ReqId } |-> c ]
    /\ default_config' = get_config_for_request_default(req.mode, RequestOverrides(req))
    /\ pc' = "validate"
    /\ exec' = Call(exec, VALIDATE)
    /\ UNCHANGED << triage_calls, stored_files, audit_logs, tasks, touched, retry_call,
                    rules_call, age, step_handlers, invoked, response, exception, faults >>

\* _create_response: the response built from the step graph
_create_response(sg) ==
    [ request_id |-> sg.request_id,
      step_graph |-> sg,
      guided_prompts |-> << >>,
      triage_result |-> None,
      diagnosis_result |-> None,
      report_manifest |-> None,
      hospitals_result |-> None,
      artifacts |-> LET RECURSIVE Collect(_, _)
                        Collect(acc, i) ==
                            IF i > Len(sg.steps) THEN acc
                            ELSE Collect(DictUpdate(acc, sg.steps[i].artifacts), i + 1)
                    IN  Collect({}, 1) ]

\* _process_*_mode returns to process_request, which returns the response
Return(sg) ==
    /\ step_graph' = sg
    /\ response' = _create_response(sg)
    /\ pc' = "done"

\* an exception leaves _process_*_mode: the except clause of process_request
\* fails the RUNNING step, if there is one, and re-raises
_get_current_step(sg) ==
    IF \E i \in 1..Len(sg.steps) : sg.steps[i].status = RUNNING
    THEN CHOOSE i \in 1..Len(sg.steps) :
            /\ sg.steps[i].status = RUNNING
            /\ \A j \in 1..(i - 1) : sg.steps[j].status # RUNNING
    ELSE 0

Raise(sg, error_type, text) ==
    /\ step_graph' = IF _get_current_step(sg) # 0
                     THEN [ sg EXCEPT !.steps[_get_current_step(sg)] = fail(@, text) ]
                     ELSE sg
    /\ exception' = error_type
    /\ pc' = "raised"

----------------------------------------------------------------------------
(* _execute_step                                                            *)

\* from the call to the first await: the lookups, then the first attempt
ExecuteStep(step_name) ==
    /\ exec[step_name].at = "called"
    \* asyncio.gather starts its coroutines in argument order
    /\ ~ (step_name = DETECT_LEG /\ exec[DETECT_HAND].at = "called")
    /\ IF ~ HasStep(step_graph, step_name) THEN
            /\ exec' = [ exec EXCEPT ![step_name].at = "returned" ]
            /\ UNCHANGED << step_graph, invoked >>
       ELSE IF get_step(step_graph, step_name).status # PENDING THEN
            /\ exec' = [ exec EXCEPT ![step_name].at = "returned" ]
            /\ UNCHANGED << step_graph, invoked >>
       ELSE IF step_name \notin step_handlers THEN
            /\ step_graph' = WithStep(step_graph, step_name,
                    skip(get_step(step_graph, step_name), "No handler available"))
            /\ exec' = [ exec EXCEPT ![step_name].at = "returned" ]
            /\ UNCHANGED invoked
       ELSE /\ step_graph' = WithStep(step_graph, step_name,
                    [ start(get_step(step_graph, step_name)) EXCEPT !.retry_count = 0 ])
            /\ exec' = [ exec EXCEPT ![step_name] = [ at |-> "await", attempt |-> 0 ] ]
            /\ invoked' = [ invoked EXCEPT ![step_name] = @ + 1 ]
    /\ UNCHANGED << services, step_handlers, active_requests, active_configs, request, pc,
                    response, exception, faults >>

\* the except Exception clause, entered with the graph as the try block left it
OnException(sg, step_name, error_type, text) ==
    IF should_retry_step(sg.request_id, step_name, exec[step_name].attempt, error_type)
    THEN /\ step_graph' = WithStep(sg, step_name, reset_for_retry(get_step(sg, step_name)))
         /\ exec' = [ exec EXCEPT ![step_name] = [ at |-> "sleep", attempt |-> @.attempt + 1 ] ]
    ELSE /\ step_graph' = WithStep(sg, step_name, fail(get_step(sg, step_name), text))
         /\ exec' = [ exec EXCEPT ![step_name].at = "returned" ]

\* The timeout passes and asyncio.wait_for cancels the handler, but the handler
\* does not end on the cancellation (it swallows CancelledError, or runs on in
\* code that does not yield): wait_for goes on waiting for it, the step RUNNING.
StageIgnoresTimeout(step_name) ==
    /\ exec[step_name].at = "await"
    /\ faults < MaxFaults
    /\ faults' = faults + 1
    /\ exec' = [ exec EXCEPT ![step_name].at = "overdue" ]
    /\ UNCHANGED << services, step_handlers, active_requests, active_configs, request, step_graph,
                    invoked, pc, response, exception >>

\* the handler returns: within the timeout, or after it when it did not end
\* on the cancellation and wait_for hands its value on
StageReturns(step_name, result) ==
    /\ exec[step_name].at \in { "await", "overdue" }
    /\ result \in StageResults(step_name)
    /\ LET step == get_step(step_graph, step_name)
           completed ==
               WithStep(step_graph, step_name,
                   IF result.is_dict
                   THEN complete(step, result.confidence, result.artifacts)
                   ELSE complete(step, NoNum, {}))
       IN  IF result.is_dict /\ step_name = ROUTE /\ result.body_part # Absent THEN
                IF result.body_part \in BodyPart
                THEN /\ step_graph' = [ completed EXCEPT !.detected_body_part = result.body_part ]
                     /\ exec' = [ exec EXCEPT ![step_name].at = "returned" ]
                \* step.complete() was called; BodyPart(result["body_part"]) is
                \* about to raise ValueError inside the try
                ELSE /\ step_graph' = completed
                     /\ exec' = [ exec EXCEPT ![step_name].at = "completed" ]
           ELSE IF result.is_dict /\ step_name = TRIAGE /\ result.level # Absent THEN
                /\ step_graph' = [ completed EXCEPT !.triage_level = result.level ]
                /\ exec' = [ exec EXCEPT ![step_name].at = "returned" ]
           ELSE /\ step_graph' = completed
                /\ exec' = [ exec EXCEPT ![step_name].at = "returned" ]
    /\ UNCHANGED << services, step_handlers, active_requests, active_configs, request, invoked,
                    pc, response, exception, faults >>

\* BodyPart(result["body_part"]) raises ValueError for a value that is no body
\* part: the except Exception clause takes the step that complete() left OK
BodyPartRaises(step_name) ==
    /\ exec[step_name].at = "completed"
    /\ OnException(step_graph, step_name, "ValueError", "not a valid BodyPart")
    /\ UNCHANGED << services, step_handlers, active_requests, active_configs, request,
                    invoked, pc, response, exception, faults >>

\* the handler raises an Exception
StageRaises(step_name, error_type) ==
    /\ exec[step_name].at = "await"
    /\ faults < MaxFaults
    /\ faults' = faults + 1
    /\ OnException(step_graph, step_name, error_type, ErrorText(error_type))
    /\ UNCHANGED << services, step_handlers, active_requests, active_configs, request, invoked,
                    pc, response, exception >>

\* asyncio.wait_for raises TimeoutError: at the timeout when the handler ends
\* on the cancellation, or once an overdue handler has ended at last and
\* wait_for drops what it returned
StageTimesOut(step_name) ==
    /\ \/ /\ exec[step_name].at = "await"
          /\ faults < MaxFaults
          /\ faults' = faults + 1
       \/ /\ exec[step_name].at = "overdue"
          /\ UNCHANGED faults
    /\ LET timed == WithStep(step_graph, step_name, timeout(get_step(step_graph, step_name)))
       IN  IF should_retry_step(step_graph.request_id, step_name,
                                exec[step_name].attempt, "timeout")
           THEN /\ step_graph' = WithStep(timed, step_name,
                                          reset_for_retry(get_step(timed, step_name)))
                /\ exec' = [ exec EXCEPT ![step_name] =
                                [ at |-> "sleep", attempt |-> @.attempt + 1 ] ]
           ELSE /\ step_graph' = timed
                /\ exec' = [ exec EXCEPT ![step_name].at = "returned" ]
    /\ UNCHANGED << services, step_handlers, active_requests, active_configs, request, invoked,
                    pc, response, exception >>

\* asyncio.sleep(0.5) is over: the next attempt starts
RetryAfterSleep(step_name) ==
    /\ exec[step_name].at = "sleep"
    /\ step_graph' = WithStep(step_graph, step_name,
            [ start(get_step(step_graph, step_name))
                EXCEPT !.retry_count = exec[step_name].attempt ])
    /\ exec' = [ exec EXCEPT ![step_name].at = "await" ]
    /\ invoked' = [ invoked EXCEPT ![step_name] = @ + 1 ]
    /\ UNCHANGED << services, step_handlers, active_requests, active_configs, request, pc,
                    response, exception, faults >>

----------------------------------------------------------------------------
(* _process_auto_mode (and _process_advanced_mode, which only calls it)     *)

Returned(step_name) == exec[step_name].at = "returned"

InAutoFlow == request.mode \in { AUTO, ADVANCED }

\* after VALIDATE: stop on a fatal error, else ROUTE
AutoAfterValidate ==
    /\ InAutoFlow /\ pc = "validate" /\ Returned(VALIDATE)
    /\ IF has_fatal_error(step_graph)
       THEN /\ Return(step_graph)
            /\ UNCHANGED exec
       ELSE /\ pc' = "route"
            /\ exec' = Call(exec, ROUTE)
            /\ UNCHANGED << step_graph, response >>
    /\ UNCHANGED << services, step_handlers, active_requests, active_configs, request, invoked,
                    exception, faults >>

\* after ROUTE: stop on a fatal error, else add the detector steps the routing
\* result asks for and execute them (both under asyncio.gather), else TRIAGE
AutoAfterRoute ==
    /\ InAutoFlow /\ pc = "route" /\ Returned(ROUTE)
    /\ IF has_fatal_error(step_graph) THEN
            /\ Return(step_graph)
            /\ UNCHANGED exec
       ELSE IF get_step(step_graph, ROUTE).status = OK
                /\ step_graph.detected_body_part = HAND THEN
            /\ step_graph' = add_step(step_graph, DETECT_HAND)
            /\ exec' = Call(exec, DETECT_HAND)
            /\ pc' = "detect"
            /\ UNCHANGED response
       ELSE IF get_step(step_graph, ROUTE).status = OK
                /\ step_graph.detected_body_part = LEG THEN
            /\ step_graph' = add_step(step_graph, DETECT_LEG)
            /\ exec' = Call(exec, DETECT_LEG)
            /\ pc' = "detect"
            /\ UNCHANGED response
       ELSE IF get_step(step_graph, ROUTE).status = OK
                /\ step_graph.detected_body_part = UNKNOWN THEN
            /\ step_graph' = add_step(add_step(step_graph, DETECT_HAND), DETECT_LEG)
            /\ exec' = Call(Call(exec, DETECT_HAND), DETECT_LEG)
            /\ pc' = "detect"
            /\ UNCHANGED response
       ELSE /\ pc' = "triage"
            /\ exec' = Call(exec, TRIAGE)
            /\ UNCHANGED << step_graph, response >>
    /\ UNCHANGED << services, step_handlers, active_requests, active_configs, request, invoked,
                    exception, faults >>

\* a gather that goes on as soon as one detector coroutine has returned
AutoAfterDetectFirstDone ==
    /\ request.mode \in { AUTO, ADVANCED } /\ pc = "detect"
    /\ \E d \in { DETECT_HAND, DETECT_LEG } : exec[d].at = "returned"
    /\ pc' = "triage"
    /\ exec' = [ exec EXCEPT ![TRIAGE] = [ at |-> "called", attempt |-> 0 ] ]
    /\ UNCHANGED << services, step_handlers, active_requests, active_configs, request, step_graph,
                    invoked, response, exception, faults >>

\* the detector _execute_step, or the gather of both, is over: TRIAGE
AutoAfterDetect ==
    /\ InAutoFlow /\ pc = "detect"
    /\ \A d \in { DETECT_HAND, DETECT_LEG } : exec[d].at \in { "idle", "returned" }
    /\ pc' = "triage"
    /\ exec' = Call(exec, TRIAGE)
    /\ UNCHANGED << services, step_handlers, active_requests, active_configs, request, step_graph,
                    invoked, response, exception, faults >>

\* a sequence that calls the next _execute_step without awaiting the one before
AutoSequence_without_await(prev, next) ==
    /\ InAutoFlow /\ pc = prev /\ exec[prev].at # "called"
    /\ << prev, next >> \in { << TRIAGE, DIAGNOSE >>, << DIAGNOSE, REPORT >> }
    /\ pc' = next
    /\ exec' = Call(exec, next)
    /\ UNCHANGED << services, step_handlers, active_requests, active_configs, request, step_graph,
                    invoked, response, exception, faults >>

\* TRIAGE, DIAGNOSE, REPORT one after the other
AutoSequence(prev, next) ==
    /\ InAutoFlow /\ pc = prev /\ Returned(prev)
    /\ << prev, next >> \in { << TRIAGE, DIAGNOSE >>, << DIAGNOSE, REPORT >> }
    /\ pc' = next
    /\ exec' = Call(exec, next)
    /\ UNCHANGED << services, step_handlers, active_requests, active_configs, request, step_graph,
                    invoked, response, exception, faults >>

\* the end of _process_auto_mode: the partial flag
AutoFinish(sg) ==
    Return(IF get_failed_steps(sg) # {} /\ ~ has_fatal_error(sg)
           THEN [ sg EXCEPT !.partial = TRUE ] ELSE sg)

\* after REPORT: HOSPITALS when the graph holds it, else the end
AutoAfterReport ==
    /\ InAutoFlow /\ pc = REPORT /\ Returned(REPORT)
    /\ IF HasStep(step_graph, HOSPITALS)
       THEN /\ pc' = HOSPITALS
            /\ exec' = Call(exec, HOSPITALS)
            /\ UNCHANGED << step_graph, response >>
       ELSE /\ AutoFinish(step_graph)
            /\ UNCHANGED exec
    /\ UNCHANGED << services, step_handlers, active_requests, active_configs, request, invoked,
                    exception, faults >>

AutoAfterHospitals ==
    /\ InAutoFlow /\ pc = HOSPITALS /\ Returned(HOSPITALS)
    /\ AutoFinish(step_graph)
    /\ UNCHANGED << services, step_handlers, active_requests, active_configs, request, exec,
                    invoked, exception, faults >>

----------------------------------------------------------------------------
(* _process_guided_mode                                                     *)

InGuidedFlow == request.mode = GUIDED

GuidedAfterValidate ==
    /\ InGuidedFlow /\ pc = "validate" /\ Returned(VALIDATE)
    /\ IF has_fatal_error(step_graph)
       THEN /\ Return(step_graph)
            /\ UNCHANGED exec
       ELSE /\ pc' = "route"
            /\ exec' = Call(exec, ROUTE)
            /\ UNCHANGED << step_graph, response >>
    /\ UNCHANGED << services, step_handlers, active_requests, active_configs, request, invoked,
                    exception, faults >>

\* the consent check before TRIAGE, then TRIAGE
GuidedConsentThenTriage(sg) ==
    /\ step_graph' =
          IF HasStep(sg, HOSPITALS) /\ ~ request.consents_geolocation
          THEN WithStep(sg, HOSPITALS,
                        skip(get_step(sg, HOSPITALS), "Geolocation consent not provided"))
          ELSE sg
    /\ exec' = Call(exec, TRIAGE)
    /\ pc' = "triage"

\* the second detector test: DETECT_LEG for LEG and UNKNOWN
GuidedLegThenTriage(sg) ==
    IF sg.detected_body_part \in { LEG, UNKNOWN }
    THEN /\ step_graph' = add_step(sg, DETECT_LEG)
         /\ exec' = Call(exec, DETECT_LEG)
         /\ pc' = "detect_leg"
    ELSE GuidedConsentThenTriage(sg)

\* route_step.confidence and route_step.confidence < thresholds["router_threshold"]
LowConfidence(sg) ==
    LET c == get_step(sg, ROUTE).confidence
    IN  Truthy(c) /\ c.val < sg.thresholds.router_threshold

\* after ROUTE: stop on a fatal error; a low confidence makes the body part
\* UNKNOWN; then DETECT_HAND for HAND and UNKNOWN
GuidedAfterRoute ==
    /\ InGuidedFlow /\ pc = "route" /\ Returned(ROUTE)
    /\ IF has_fatal_error(step_graph) THEN
            /\ Return(step_graph)
            /\ UNCHANGED << exec, exception >>
       ELSE IF get_step(step_graph, ROUTE).confidence = NotANum THEN
            \* the comparison of a non-number with a float raises TypeError
            /\ Raise(step_graph, "TypeError", "'<' not supported")
            /\ UNCHANGED << exec, response >>
       ELSE LET sg == IF LowConfidence(step_graph)
                      THEN [ step_graph EXCEPT !.detected_body_part = UNKNOWN ]
                      ELSE step_graph
            IN  /\ IF sg.detected_body_part \in { HAND, UNKNOWN }
                   THEN /\ step_graph' = add_step(sg, DETECT_HAND)
                        /\ exec' = Call(exec, DETECT_HAND)
                        /\ pc' = "detect_hand"
                   ELSE GuidedLegThenTriage(sg)
                /\ UNCHANGED << response, exception >>
    /\ UNCHANGED << services, step_handlers, active_requests, active_configs, request, invoked,
                    faults >>

GuidedAfterHand ==
    /\ InGuidedFlow /\ pc = "detect_hand" /\ Returned(DETECT_HAND)
    /\ GuidedLegThenTriage(step_graph)
    /\ UNCHANGED << services, step_handlers, active_requests, active_configs, request, invoked,
                    response, exception, faults >>

GuidedAfterLeg ==
    /\ InGuidedFlow /\ pc = "detect_leg" /\ Returned(DETECT_LEG)
    /\ GuidedConsentThenTriage(step_graph)
    /\ UNCHANGED << services, step_handlers, active_requests, active_configs, request, invoked,
                    response, exception, faults >>

GuidedSequence(prev, next) ==
    /\ InGuidedFlow /\ pc = prev /\ Returned(prev)
    /\ << prev, next >> \in { << TRIAGE, DIAGNOSE >>, << DIAGNOSE, REPORT >> }
    /\ pc' = next
    /\ exec' = Call(exec, next)
    /\ UNCHANGED << services, step_handlers, active_requests, active_configs, request, step_graph,
                    invoked, response, exception, faults >>

\* after REPORT: HOSPITALS when the graph holds it still PENDING
GuidedAfterReport ==
    /\ InGuidedFlow /\ pc = REPORT /\ Returned(REPORT)
    /\ IF HasStep(step_graph, HOSPITALS) /\ get_step(step_graph, HOSPITALS).status = PENDING
       THEN /\ pc' = HOSPITALS
            /\ exec' = Call(exec, HOSPITALS)
            /\ UNCHANGED << step_graph, response >>
       ELSE /\ Return(step_graph)
            /\ UNCHANGED exec
    /\ UNCHANGED << services, step_handlers, active_requests, active_configs, request, invoked,
                    exception, faults >>

GuidedAfterHospitals ==
    /\ InGuidedFlow /\ pc = HOSPITALS /\ Returned(HOSPITALS)
    /\ Return(step_graph)
    /\ UNCHANGED << services, step_handlers, active_requests, active_configs, request, exec,
                    invoked, exception, faults >>

----------------------------------------------------------------------------
(* Cancellation of the request's task                                       *)

\* The task is cancelled while it waits for a stage or sleeps before a retry:
\* CancelledError is no Exception, so neither _execute_step nor process_request
\* catches it, and it reaches the caller with the step graph as it is.
Cancel ==
    /\ pc \notin { "idle", "done", "raised" }
    /\ \E s \in StepName : exec[s].at \in { "await", "overdue", "sleep" }
    /\ exec' = [ s \in StepName |->
                   IF exec[s].at \in { "called", "await", "overdue", "sleep" }
                   THEN [ exec[s] EXCEPT !.at = "cancelled" ] ELSE exec[s] ]
    /\ exception' = "CancelledError"
    /\ pc' = "raised"
    /\ UNCHANGED << services, step_handlers, active_requests, active_configs, request, step_graph,
                    invoked, response, faults >>

----------------------------------------------------------------------------
(* The specification                                                        *)

Requests ==
    { ProcessingRequest(m, g, o.overrides, o.router_threshold_override,
                        o.timeout_overrides) :
        m \in ProcessingMode, g \in BOOLEAN, o \in RequestOverrideValues }

Next ==
    \/ \E table \in HandlerTables : register_all_handlers(table)
    \/ \E req \in Requests : process_request(req)
    \/ \E s \in StepName : ExecuteStep(s)
    \/ \E s \in StepName : \E r \in StageResults(s) : StageReturns(s, r)
    \/ \E s \in StepName : BodyPartRaises(s)
    \/ \E s \in StepName : \E e \in StageErrors : StageRaises(s, e)
    \/ \E s \in StepName : StageTimesOut(s)
    \/ \E s \in StepName : StageIgnoresTimeout(s)
    \/ \E s \in StepName : RetryAfterSleep(s)
    \/ AutoAfterValidate
    \/ AutoAfterRoute
    \/ AutoAfterDetect
    \/ \E p, n \in StepName : AutoSequence(p, n)
    \/ AutoAfterReport
    \/ AutoAfterHospitals
    \/ GuidedAfterValidate
    \/ GuidedAfterRoute
    \/ GuidedAfterHand
    \/ GuidedAfterLeg
    \/ \E p, n \in StepName : GuidedSequence(p, n)
    \/ GuidedAfterReport
    \/ GuidedAfterHospitals
    \/ Cancel

Spec == Init /\ [][Next]_vars

\* What the event loop and a stage that honours its timeout are bound to do:
\* a called _execute_step runs to its await, an awaited stage answers unless
\* its timeout fires first, a retry sleep ends, and the coroutine of the request
\* goes on once the step it awaits has returned.  Nothing obliges a handler
\* that is overdue to return, and nothing obliges the caller to cancel.
Progress ==
    \/ \E s \in StepName : ExecuteStep(s)
    \/ \E s \in StepName : \E r \in StageResults(s) :
          exec[s].at = "await" /\ StageReturns(s, r)
    \/ \E s \in StepName : BodyPartRaises(s)
    \/ \E s \in StepName : RetryAfterSleep(s)
    \/ AutoAfterValidate
    \/ AutoAfterRoute
    \/ AutoAfterDetect
    \/ \E p, n \in StepName : AutoSequence(p, n)
    \/ AutoAfterReport
    \/ AutoAfterHospitals
    \/ GuidedAfterValidate
    \/ GuidedAfterRoute
    \/ GuidedAfterHand
    \/ GuidedAfterLeg
    \/ \E p, n \in StepName : GuidedSequence(p, n)
    \/ GuidedAfterReport
    \/ GuidedAfterHospitals

LiveSpec == Init /\ [][Next]_vars /\ WF_vars(Progress)

----------------------------------------------------------------------------
(* Properties                                                               *)

\* the status of the step of that name, "absent" when the graph has none
Status(step_name) ==
    IF pc = "idle" THEN "absent"
    ELSE IF HasStep(step_graph, step_name) THEN get_step(step_graph, step_name).status
    ELSE "absent"

\* the order of the steps in the control flow of every mode
Rank(step_name) ==
    CASE step_name = VALIDATE -> 1
      [] step_name = ROUTE -> 2
      [] step_name \in { DETECT_HAND, DETECT_LEG } -> 3
      [] step_name = TRIAGE -> 4
      [] step_name = DIAGNOSE -> 5
      [] step_name = REPORT -> 6
      [] step_name = HOSPITALS -> 7

\* the step's _execute_step returned and left it ERROR or TIMEOUT
EndedInFailure(step_name) ==
    /\ exec[step_name].at = "returned"
    /\ Status(step_name) \in { ERROR, TIMEOUT }

FatalOnError(step_name) == get_step_policy(ConfigOf(ReqId), step_name).is_fatal_on_error

\* C1 (as claimed): once a fatal_on_error step (VALIDATE, ROUTE) has ended in
\* ERROR or TIMEOUT, every step after it in the control flow is PENDING or
\* SKIPPED and the graph holds no detector step.
C1_FatalFailureStopsPipeline ==
    \A f \in StepName :
        (FatalOnError(f) /\ EndedInFailure(f)) =>
            /\ \A n \in StepName :
                  Rank(n) > Rank(f) => Status(n) \in { "absent", PENDING, SKIPPED }
            /\ Status(DETECT_HAND) = "absent"
            /\ Status(DETECT_LEG) = "absent"

\* C2 (as claimed): when process_request returns, partial is true exactly when
\* some step is ERROR or TIMEOUT and neither VALIDATE nor ROUTE is.
C2_PartialIffNonFatalFailure ==
    pc = "done" =>
        (response.step_graph.partial <=>
            /\ \E n \in StepName : Status(n) \in { ERROR, TIMEOUT }
            /\ \A f \in { VALIDATE, ROUTE } : Status(f) \notin { ERROR, TIMEOUT })

\* C3 (as claimed): every step of a returned response is OK, ERROR, TIMEOUT or
\* SKIPPED.
C3_EveryStepTerminal ==
    pc = "done" =>
        \A i \in 1..Len(response.step_graph.steps) :
            response.step_graph.steps[i].status \in { OK, ERROR, TIMEOUT, SKIPPED }

\* C3 (amended): in a returned response no step is RUNNING, and a step is
\* PENDING exactly when it comes after a VALIDATE or ROUTE step that ended in
\* ERROR; every other step is OK, ERROR, TIMEOUT or SKIPPED.
C3_TerminalUnlessStoppedByFatalError ==
    pc = "done" =>
        \A i \in 1..Len(response.step_graph.steps) :
            LET step == response.step_graph.steps[i]
                stopped == \E f \in { VALIDATE, ROUTE } :
                              Status(f) = ERROR /\ Rank(step.name) > Rank(f)
            IN  /\ step.status # RUNNING
                /\ step.status = PENDING <=> stopped
                /\ step.status # PENDING => step.status \in { OK, ERROR, TIMEOUT, SKIPPED }

\* a response whose pipeline stopped at a ROUTE error, TRIAGE still PENDING
C3_Witness ==
    /\ pc = "done"
    /\ Status(VALIDATE) = OK
    /\ Status(ROUTE) = ERROR
    /\ Status(TRIAGE) = PENDING

NonFatalSteps == { DETECT_HAND, DETECT_LEG, TRIAGE, DIAGNOSE, REPORT }

\* C4: when a response is returned and a detector step, TRIAGE, DIAGNOSE or
\* REPORT ended in ERROR or TIMEOUT, every step after it in the control flow was
\* executed (its _execute_step returned and left it terminal), the second
\* detector of an UNKNOWN body part included, and in AUTO mode partial is
\* true; a step with a retry that ended in TIMEOUT has retry_count = 1.
C4_NonFatalFailureContinues ==
    pc = "done" =>
        \A n \in NonFatalSteps :
            Status(n) \in { ERROR, TIMEOUT } =>
                /\ \A m \in StepName :
                      (Rank(m) > Rank(n) /\ Status(m) # "absent") =>
                          /\ exec[m].at = "returned"
                          /\ Status(m) \in { OK, ERROR, TIMEOUT, SKIPPED }
                /\ (n = DETECT_HAND /\ step_graph.detected_body_part = UNKNOWN) =>
                      /\ exec[DETECT_LEG].at = "returned"
                      /\ Status(DETECT_LEG) \in { OK, ERROR, TIMEOUT, SKIPPED }
                /\ request.mode = AUTO => response.step_graph.partial
                /\ (n # TRIAGE /\ Status(n) = TIMEOUT) =>
                      get_step(step_graph, n).retry_count = 1

\* DETECT_HAND timed out on both attempts, TRIAGE ran, the response is partial
C4_Witness ==
    /\ pc = "done"
    /\ request.mode = AUTO
    /\ Status(DETECT_HAND) = TIMEOUT
    /\ get_step(step_graph, DETECT_HAND).retry_count = 1
    /\ invoked[DETECT_HAND] = 2
    /\ Status(TRIAGE) = OK
    /\ response.step_graph.partial

\* C5: in AUTO mode, once VALIDATE is ERROR it was invoked exactly once, carries
\* the message of the stage's exception, no other stage was invoked, the other
\* steps are PENDING, no detector step exists, partial is false, and the
\* response returned has no artifacts.
C5_ValidateErrorStopsAuto ==
    (pc # "idle" /\ request.mode = AUTO /\ Status(VALIDATE) = ERROR) =>
        /\ invoked[VALIDATE] = 1
        /\ get_step(step_graph, VALIDATE).retry_count = 0
        /\ get_step(step_graph, VALIDATE).error_message
              \in { ErrorText(e) : e \in StageErrors }
        /\ \A n \in StepName \ { VALIDATE } :
              /\ invoked[n] = 0
              /\ Status(n) \in (IF n \in { DETECT_HAND, DETECT_LEG }
                                THEN { "absent" }
                                ELSE { "absent", PENDING })
        /\ \A n \in { ROUTE, TRIAGE, DIAGNOSE, REPORT } : Status(n) = PENDING
        /\ ~ step_graph.partial
        /\ pc \in { "validate", "done" }
        /\ pc = "done" => (response.artifacts = {} /\ response.step_graph = step_graph)

\* the response of an AUTO request whose VALIDATE stage raised
C5_Witness ==
    /\ pc = "done"
    /\ request.mode = AUTO
    /\ Status(VALIDATE) = ERROR
    /\ response.artifacts = {}

Detectors == { DETECT_HAND, DETECT_LEG }

\* C6: in AUTO mode, once ROUTE ended OK with body part UNKNOWN and the routing
\* result was acted on, the graph holds both detector steps; a detector step is
\* SKIPPED only for want of a handler; and whenever TRIAGE has been called, both
\* detector coroutines have returned with a terminal status, each detector with
\* a handler having been invoked.
C6_AutoUnknownRunsBothDetectors ==
    (pc \notin { "idle", "route" } /\ request.mode = AUTO
        /\ Status(ROUTE) = OK /\ step_graph.detected_body_part = UNKNOWN) =>
        /\ \A d \in Detectors : Status(d) # "absent"
        /\ \A d \in Detectors : Status(d) = SKIPPED => d \notin step_handlers
        /\ (exec[TRIAGE].at # "idle" \/ Status(TRIAGE) # PENDING) =>
              \A d \in Detectors :
                  /\ exec[d].at = "returned"
                  /\ Status(d) \in { OK, ERROR, TIMEOUT, SKIPPED }
                  /\ d \in step_handlers => invoked[d] >= 1

\* both detector stages are running at once
C6_Witness ==
    /\ pc = "detect"
    /\ request.mode = AUTO
    /\ step_graph.detected_body_part = UNKNOWN
    /\ Status(DETECT_HAND) = RUNNING
    /\ Status(DETECT_LEG) = RUNNING

\* C7 (as claimed): in GUIDED mode, once ROUTE ended OK with a confidence below
\* router_threshold and the routing result was acted on, the graph holds both
\* detector steps (they are started together), and whenever TRIAGE has been
\* called both have returned with a terminal status.
C7_GuidedLowConfidenceRunsBothConcurrently ==
    (pc \notin { "idle", "route" } /\ request.mode = GUIDED /\ Status(ROUTE) = OK
        /\ get_step(step_graph, ROUTE).confidence.kind = "num"
        /\ get_step(step_graph, ROUTE).confidence.val < step_graph.thresholds.router_threshold) =>
        /\ \A d \in Detectors : Status(d) # "absent"
        /\ (exec[TRIAGE].at # "idle" \/ Status(TRIAGE) # PENDING) =>
              \A d \in Detectors :
                  /\ exec[d].at = "returned"
                  /\ Status(d) \in { OK, ERROR, TIMEOUT, SKIPPED }

\* C8 (as claimed): whatever the stages return or raise, process_request does
\* not raise (an exception reaches the caller only when the task is cancelled),
\* and in the response every ERROR or TIMEOUT step carries a message.
C8_NeverRaisesIntoCaller ==
    /\ pc = "raised" => exception = "CancelledError"
    /\ pc = "done" =>
          \A i \in 1..Len(response.step_graph.steps) :
              response.step_graph.steps[i].status \in { ERROR, TIMEOUT } =>
                  response.step_graph.steps[i].error_message # None

\* override values for the configs the registry can derive
PolicyOverrideValues ==
    { [ NoOverrides EXCEPT !.router_threshold = rt, !.timeout_overrides = tos ] :
        rt \in { NoNum, Num(95) },
        tos \in { << >>, << <<"detect", 1>> >>, << <<TRIAGE, 30>> >>,
                  << <<TRIAGE, 30>>, <<"detect", 1>>, <<"nothing", 2>> >> } }

\* C9: the TRIAGE stage is invoked at most once, the TRIAGE step's retry_count
\* is 0, and every config bound to a request or derivable from overrides in any
\* mode has retry_policy NEVER for TRIAGE.
C9_TriageNeverRetried ==
    /\ invoked[TRIAGE] <= 1
    /\ Status(TRIAGE) # "absent" => get_step(step_graph, TRIAGE).retry_count = 0
    /\ exec[TRIAGE].attempt = 0
    /\ \A id \in DOMAIN active_configs :
          active_configs[id].step_policies[TRIAGE].retry_policy = NEVER
    /\ \A m \in ProcessingMode : \A o \in PolicyOverrideValues :
          get_config_for_request(m, o).step_policies[TRIAGE].retry_policy = NEVER

\* an ADVANCED request with overrides whose TRIAGE stage timed out
C9_Witness ==
    /\ pc = "done"
    /\ request.mode = ADVANCED
    /\ request.timeout_overrides # << >>
    /\ Status(TRIAGE) = TIMEOUT
    /\ invoked[TRIAGE] = 1

\* C10 (as claimed): when TRIAGE ended in ERROR or TIMEOUT the response carries
\* a fallback triage_result with level AMBER, confidence 0 and partial true.
C10_FallbackTriageResult ==
    (pc = "done" /\ Status(TRIAGE) \in { ERROR, TIMEOUT }) =>
        /\ response.triage_result # None
        /\ response.triage_result.level = "AMBER"
        /\ response.triage_result.confidence = 0
        /\ response.triage_result.partial

\* C11 (as claimed): in a returned response, triage_result, diagnosis_result,
\* report_manifest and hospitals_result are each present exactly when the
\* TRIAGE, DIAGNOSE, REPORT or HOSPITALS step ended OK.
C11_ResultsPresentIffStepOk ==
    pc = "done" =>
        /\ response.triage_result # None    <=> Status(TRIAGE) = OK
        /\ response.diagnosis_result # None <=> Status(DIAGNOSE) = OK
        /\ response.report_manifest # None  <=> Status(REPORT) = OK
        /\ response.hospitals_result # None <=> Status(HOSPITALS) = OK

\* C12 (as claimed): once a request was cancelled while a stage was running,
\* the stage's invocation is cancelled, no step is RUNNING, and every step that
\* was never started is SKIPPED with the reason "request cancelled".
C12_CancellationRecorded ==
    (pc = "raised" /\ exception = "CancelledError") =>
        /\ \A s \in StepName : exec[s].at \notin { "await", "sleep" }
        /\ \A i \in 1..Len(step_graph.steps) :
              LET step == step_graph.steps[i]
              IN  /\ step.status # RUNNING
                  /\ invoked[step.name] = 0 =>
                        /\ step.status = SKIPPED
                        /\ step.error_message = "request cancelled"

\* C13 (as claimed): a step that is RUNNING leaves RUNNING, whatever its stage
\* does about the timeout (a request that is cancelled aside).
C13_StartedStepLeavesRunning ==
    \A s \in StepName :
        (Status(s) = RUNNING) ~> (Status(s) # RUNNING \/ exception = "CancelledError")

\* the detector steps the graph holds
DetectorSteps == { d \in Detectors : Status(d) # "absent" }

\* C14 (as claimed): in AUTO mode, once ROUTE ended OK and its result was acted
\* on, the detector steps of the graph are DETECT_HAND alone for HAND,
\* DETECT_LEG alone for LEG, and both for UNKNOWN or for no body part at all.
C14_AutoDetectorsFollowBodyPart ==
    (request.mode = AUTO /\ pc \notin { "idle", "validate", "route" }
        /\ Status(ROUTE) = OK) =>
        DetectorSteps =
            CASE step_graph.detected_body_part = HAND -> { DETECT_HAND }
              [] step_graph.detected_body_part = LEG  -> { DETECT_LEG }
              [] OTHER -> { DETECT_HAND, DETECT_LEG }

\* C15 (as claimed): a GUIDED response carries a low_confidence prompt for
\* ROUTE when the ROUTE step's confidence is below router_threshold, and a
\* consent_required prompt for HOSPITALS when geolocation consent is missing.
C15_GuidedPromptsInResponse ==
    (pc = "done" /\ request.mode = GUIDED) =>
        /\ (/\ get_step(step_graph, ROUTE).confidence.kind = "num"
            /\ get_step(step_graph, ROUTE).confidence.val
                  < step_graph.thresholds.router_threshold) =>
              \E i \in 1..Len(response.guided_prompts) :
                  /\ response.guided_prompts[i].step_name = ROUTE
                  /\ response.guided_prompts[i].prompt_type = "low_confidence"
                  /\ response.guided_prompts[i].options = << "hand", "leg", "both" >>
        /\ ~ request.consents_geolocation =>
              \E i \in 1..Len(response.guided_prompts) :
                  /\ response.guided_prompts[i].step_name = HOSPITALS
                  /\ response.guided_prompts[i].prompt_type = "consent_required"

\* C16 (as claimed): the graph of a GUIDED response to a request without
\* geolocation consent holds a HOSPITALS step, SKIPPED with the reason
\* "Geolocation consent not provided", and the HOSPITALS stage was not invoked.
C16_GuidedHospitalsSkippedWithoutConsent ==
    (pc = "done" /\ request.mode = GUIDED /\ ~ request.consents_geolocation) =>
        /\ Status(HOSPITALS) = SKIPPED
        /\ get_step(step_graph, HOSPITALS).error_message
              = "Geolocation consent not provided"
        /\ invoked[HOSPITALS] = 0

\* the partial flag _process_auto_mode gives a graph with these step statuses
AutoPartial(sg) == get_failed_steps(sg) # {} /\ ~ has_fatal_error(sg)

\* C17 (as claimed): for a GUIDED request with geolocation consent whose ROUTE
\* confidence is not below router_threshold, the response has the partial flag
\* AUTO gives the same step statuses, and the detectors of an UNKNOWN body part
\* are both in the graph from the moment the routing result is acted on, as
\* under AUTO's gather.
C17_GuidedAsAuto ==
    (request.mode = GUIDED /\ request.consents_geolocation
        /\ pc \notin { "idle", "validate", "route", "raised" }
        /\ ~ LowConfidence(step_graph)) =>
        /\ pc = "done" => response.step_graph.partial = AutoPartial(step_graph)
        /\ (Status(ROUTE) = OK /\ step_graph.detected_body_part = UNKNOWN) =>
              DetectorSteps = { DETECT_HAND, DETECT_LEG }

\* C18: a step whose name has no registered handler is never invoked and never
\* RUNNING, ERROR or TIMEOUT; once its _execute_step has returned it is SKIPPED
\* with the reason "No handler available"; in a response, unless VALIDATE or
\* ROUTE ended in ERROR, every step after it was executed, and when every
\* step that has a handler ended OK the graph is neither partial nor fatal.
C18_NoHandlerSkips ==
    \A s \in StepName :
        (pc # "idle" /\ s \notin step_handlers /\ Status(s) # "absent") =>
            /\ invoked[s] = 0
            /\ Status(s) \in { PENDING, SKIPPED }
            /\ exec[s].at = "returned" =>
                  /\ Status(s) = SKIPPED
                  /\ get_step(step_graph, s).error_message = "No handler available"
            /\ (pc = "done" /\ Status(s) = SKIPPED) =>
                  /\ StepIndex(step_graph.steps, s) \notin get_failed_steps(step_graph)
                  /\ ~ has_fatal_error(step_graph) =>
                        \A m \in StepName :
                            (Rank(m) > Rank(s) /\ Status(m) # "absent") =>
                                /\ exec[m].at = "returned"
                                /\ Status(m) \in TerminalStatuses
                  /\ (\A m \in StepName : Status(m) \in { "absent", OK, SKIPPED }) =>
                        /\ ~ response.step_graph.partial
                        /\ ~ has_fatal_error(response.step_graph)

\* the repository's own handler table: DIAGNOSE and REPORT are skipped for want
\* of a handler after TRIAGE ended OK, and the response is not partial
C18_Witness ==
    /\ pc = "done"
    /\ step_handlers = STEP_HANDLERS
    /\ Status(TRIAGE) = OK
    /\ Status(DIAGNOSE) = SKIPPED
    /\ get_step(step_graph, DIAGNOSE).error_message = "No handler available"
    /\ Status(REPORT) = SKIPPED
    /\ invoked[DIAGNOSE] = 0
    /\ ~ response.step_graph.partial

\* C19: for an AUTO or GUIDED request, whatever overrides it carries, the
\* config bound to the request is the default config, the graph's config_hash,
\* thresholds and timeouts are the default ones, and the timeout and the retry
\* decision of every step are those of the default policy table.
C19_OverridesOnlyInAdvanced ==
    (pc # "idle" /\ request.mode \in { AUTO, GUIDED }) =>
        /\ ReqId \in DOMAIN active_configs
        /\ active_configs[ReqId] = _load_default_config
        /\ step_graph.config_hash = _load_default_config.config_hash
        /\ step_graph.thresholds = get_detection_thresholds(_load_default_config)
        /\ step_graph.thresholds.router_threshold = router_threshold_default
        /\ step_graph.timeouts = get_config_timeouts(_load_default_config)
        /\ \A s \in StepName :
              /\ get_step_timeout(step_graph.request_id, s)
                    = _create_default_step_policies[s].timeout_seconds
              /\ \A n \in 0..1 : \A e \in { "timeout", "ValueError" } :
                    should_retry_step(step_graph.request_id, s, n, e)
                        = (s # TRIAGE /\ should_retry(_create_default_step_policies[s], n, e))

\* the response to an AUTO request that carried overrides
C19_Witness ==
    /\ pc = "done"
    /\ request.mode = AUTO
    /\ request.router_threshold_override = Num(95)
    /\ request.timeout_overrides = << <<"detect", 1>> >>
    /\ Status(DETECT_HAND) = OK

\* the overrides a request asks for: its free-form overrides mapping, or its
\* override fields
RequestedOverrides(req) ==
    IF req.overrides # NoOverrides THEN req.overrides ELSE RequestOverrides(req)

\* C20 (as claimed): for an ADVANCED request whose overrides set
\* router_threshold and a timeout for the alias "detect", both detectors are
\* executed under that timeout, the graph's thresholds and timeouts hold the
\* overridden values, and config_hash is not the default hash.
C20_AdvancedOverridesApplied ==
    (pc # "idle" /\ request.mode = ADVANCED
        /\ RequestedOverrides(request).router_threshold = Num(95)
        /\ RequestedOverrides(request).timeout_overrides = << <<"detect", 1>> >>) =>
        /\ \A d \in Detectors :
              /\ get_step_timeout(step_graph.request_id, d) = 1
              /\ step_graph.timeouts[d] = 1
        /\ step_graph.thresholds.router_threshold = 95
        /\ step_graph.config_hash # _load_default_config.config_hash

----------------------------------------------------------------------------
(* PolicyService called on its own: services/policies.py                    *)

\* one error for a threshold key that is present and is no number in [0, 1]
ThresholdErrors(name, v) ==
    IF v.kind = "none" THEN << >>
    ELSE IF v.kind # "num" \/ v.val < 0 \/ v.val > 100
         THEN << name \o " must be between 0.0 and 1.0" >>
         ELSE << >>

\* the loop over timeout_overrides.items() of validate_overrides
RECURSIVE TimeoutErrors(_)
TimeoutErrors(items) ==
    IF items = << >> THEN << >>
    ELSE LET step_name == Head(items)[1]
             seconds   == Head(items)[2]
             here == IF step_name \notin StepName \cup { "detect" }
                         THEN << "Invalid step name: " \o step_name >>
                     ELSE IF seconds <= 0
                         THEN << "Timeout for " \o step_name
                                    \o " must be a positive integer" >>
                     ELSE << >>
         IN  here \o TimeoutErrors(Tail(items))

\* validate_overrides: the errors it returns; a key it does not know adds none
validate_overrides(overrides) ==
    ThresholdErrors("router_threshold", overrides.router_threshold)
    \o ThresholdErrors("detector_score_min", overrides.detector_score_min)
    \o ThresholdErrors("triage_red_threshold", overrides.triage_red_threshold)
    \o ThresholdErrors("triage_amber_threshold", overrides.triage_amber_threshold)
    \o ( IF overrides.triage_red_patterns.kind \in { "none", "list" } THEN << >>
         ELSE << "triage_red_patterns must be a list of strings" >> )
    \o ( IF overrides.max_retries.kind = "none" THEN << >>
         ELSE IF overrides.max_retries.kind # "num" \/ overrides.max_retries.val < 0
              THEN << "max_retries must be a non-negative integer" >>
              ELSE << >> )
    \o TimeoutErrors(overrides.timeout_overrides)

PolicyRequestIds == { TempId, ReqId, OtherReqId }

\* the overrides dicts the registry is called with: none, one key with a legal
\* value, one key with an illegal value, and a key the registry does not know
PolicyOverrideInputs ==
    { NoOverrides,
      [ NoOverrides EXCEPT !.router_threshold = Num(95) ],
      [ NoOverrides EXCEPT !.router_threshold = Num(150) ],
      [ NoOverrides EXCEPT !.triage_red_threshold = Num(50) ],
      [ NoOverrides EXCEPT !.triage_red_patterns = List(<< "crush_fracture" >>) ],
      [ NoOverrides EXCEPT !.max_retries = Num(3) ],
      [ NoOverrides EXCEPT !.max_retries = Num(-1) ],
      [ NoOverrides EXCEPT !.timeout_overrides = << <<"detect", 1>> >> ],
      [ NoOverrides EXCEPT !.timeout_overrides = << <<"detect", 0>> >> ],
      [ NoOverrides EXCEPT !.timeout_overrides = << <<"nothing", 2>> >> ],
      [ NoOverrides EXCEPT !.other_keys = { "colour" } ] }

\* get_config_for_request(request_id, mode, overrides), with its binding
PolicyGetConfigForRequest(request_id, mode, overrides) ==
    /\ active_configs' =
          [ id \in DOMAIN active_configs \cup { request_id } |->
              IF id = request_id THEN get_config_for_request(mode, overrides)
              ELSE active_configs[id] ]
    /\ default_config' = get_config_for_request_default(mode, overrides)
    /\ UNCHANGED << triage_calls, stored_files, audit_logs, tasks, touched, retry_call,
                    rules_call, age, step_handlers, active_requests, request, step_graph,
                    exec, invoked, pc, response, exception, faults >>

cleanup_request_config(request_id) ==
    /\ request_id \in DOMAIN active_configs
    /\ active_configs' =
          [ id \in DOMAIN active_configs \ { request_id } |-> active_configs[id] ]
    /\ UNCHANGED << services, step_handlers, active_requests, request, step_graph,
                    exec, invoked, pc, response, exception, faults >>

PolicyNext ==
    \/ \E request_id \in PolicyRequestIds, mode \in { AUTO, ADVANCED },
          overrides \in PolicyOverrideInputs :
            PolicyGetConfigForRequest(request_id, mode, overrides)
    \/ \E request_id \in PolicyRequestIds : cleanup_request_config(request_id)

PolicySpec == Init /\ [][PolicyNext]_vars

\* the configs the registry derives from overrides that pass validate_overrides
ValidatedConfigs ==
    { _load_default_config }
    \cup { apply_overrides(_load_default_config, o) :
            o \in { x \in PolicyOverrideInputs : validate_overrides(x) = << >> } }

\* C21 (as claimed): overrides that fail validation never take effect: every
\* config bound to a request is the default or is derived from overrides that
\* pass validation.
C21_InvalidOverridesNeverBound ==
    \A id \in DOMAIN active_configs : active_configs[id] \in ValidatedConfigs

\* C22 (as claimed): config_hash depends on the thresholds, the triage pattern
\* lists, the step policy table and the version only: two configs bound to
\* requests that agree on those fields have the same config_hash, whatever
\* their max_retries.  (The version is the same in every config of the model.)
C22_HashOverListedFieldsOnly ==
    \A a, b \in DOMAIN active_configs :
        LET ca == active_configs[a]
            cb == active_configs[b]
        IN  ( /\ ca.router_threshold = cb.router_threshold
              /\ ca.detector_score_min = cb.detector_score_min
              /\ ca.triage_red_threshold = cb.triage_red_threshold
              /\ ca.triage_amber_threshold = cb.triage_amber_threshold
              /\ ca.triage_red_patterns = cb.triage_red_patterns
              /\ ca.triage_high_confidence_threshold
                    = cb.triage_high_confidence_threshold
              /\ ca.step_policies = cb.step_policies )
            => ca.config_hash = cb.config_hash

----------------------------------------------------------------------------
(* TriageAgent: agents/triage.py, and its stage handler agents/handlers.py  *)
(* Detection scores and thresholds are hundredths; the triage score and the *)
(* confidence of a result are ten-thousandths (0.625 is 6250).              *)

\* calls of the triage kernel followed in one behaviour
MaxTriageCalls == 2

Detection(label, score) == [ label |-> label, score |-> score ]

MaxOf(S) == CHOOSE x \in S : \A y \in S : y <= x
MinOf(S) == CHOOSE x \in S : \A y \in S : x <= y

\* the characters of the finding labels and of the severity keywords
FindingChars(s) ==
    CASE s = "fracture" -> << "f", "r", "a", "c", "t", "u", "r", "e" >>
        [] s = "displaced_fracture" -> << "d", "i", "s", "p", "l", "a", "c", "e", "d", "_",
              "f", "r", "a", "c", "t", "u", "r", "e" >>
        [] s = "hairline_fracture" -> << "h", "a", "i", "r", "l", "i", "n", "e", "_", "f", "r",
              "a", "c", "t", "u", "r", "e" >>
        [] s = "Open crack" -> << "O", "p", "e", "n", " ", "c", "r", "a", "c", "k" >>
        [] s = "fracture detected" -> << "f", "r", "a", "c", "t", "u", "r", "e", " ", "d", "e",
              "t", "e", "c", "t", "e", "d" >>
        [] s = "unlikely fracture" -> << "u", "n", "l", "i", "k", "e", "l", "y", " ", "f", "r",
              "a", "c", "t", "u", "r", "e" >>
        [] s = "Hairline crack" -> << "H", "a", "i", "r", "l", "i", "n", "e", " ", "c", "r", "a",
              "c", "k" >>
        [] s = "no fracture" -> << "n", "o", " ", "f", "r", "a", "c", "t", "u", "r", "e" >>
        [] s = "normal" -> << "n", "o", "r", "m", "a", "l" >>
        [] s = "compound" -> << "c", "o", "m", "p", "o", "u", "n", "d" >>
        [] s = "open" -> << "o", "p", "e", "n" >>
        [] s = "severe" -> << "s", "e", "v", "e", "r", "e" >>
        [] s = "displaced" -> << "d", "i", "s", "p", "l", "a", "c", "e", "d" >>
        [] s = "comminuted" -> << "c", "o", "m", "m", "i", "n", "u", "t", "e", "d" >>
        [] s = "avulsion" -> << "a", "v", "u", "l", "s", "i", "o", "n" >>
        [] s = "break" -> << "b", "r", "e", "a", "k" >>
        [] s = "crack" -> << "c", "r", "a", "c", "k" >>
        [] s = "confirmed fracture" -> << "c", "o", "n", "f", "i", "r", "m", "e", "d", " ",
              "f", "r", "a", "c", "t", "u", "r", "e" >>
        [] s = "likely fracture" -> << "l", "i", "k", "e", "l", "y", " ", "f", "r", "a", "c",
              "t", "u", "r", "e" >>
        [] s = "probable fracture" -> << "p", "r", "o", "b", "a", "b", "l", "e", " ", "f", "r",
              "a", "c", "t", "u", "r", "e" >>
        [] s = "suspected fracture" -> << "s", "u", "s", "p", "e", "c", "t", "e", "d", " ",
              "f", "r", "a", "c", "t", "u", "r", "e" >>
        [] s = "possible fracture" -> << "p", "o", "s", "s", "i", "b", "l", "e", " ", "f", "r",
              "a", "c", "t", "u", "r", "e" >>
        [] s = "minor" -> << "m", "i", "n", "o", "r" >>
        [] s = "hairline" -> << "h", "a", "i", "r", "l", "i", "n", "e" >>
        [] s = "stress" -> << "s", "t", "r", "e", "s", "s" >>
        [] s = "no fractures" -> << "n", "o", " ", "f", "r", "a", "c", "t", "u", "r", "e",
              "s" >>
        [] s = "clear" -> << "c", "l", "e", "a", "r" >>
        [] s = "negative" -> << "n", "e", "g", "a", "t", "i", "v", "e" >>

\* the keyword lists of _calculate_severity_score with what each returns
\* (hundredths), in the order the function tests them
severity_tiers ==
    << [ keywords |-> { "compound", "open", "severe", "displaced", "comminuted",
                        "avulsion" }, returns |-> 30 ],
       [ keywords |-> { "fracture detected", "break", "crack", "confirmed fracture" },
         returns |-> 20 ],
       [ keywords |-> { "likely fracture", "probable fracture", "suspected fracture" },
         returns |-> 10 ],
       [ keywords |-> { "possible fracture", "minor", "hairline", "stress" },
         returns |-> 5 ],
       [ keywords |-> { "no fractures", "no fracture", "normal", "clear", "negative" },
         returns |-> 0 ] >>

\* a severity function whose last-but-one list is tested first
_calculate_severity_score_low_first(primary_finding) ==
    LET matches(i) == \E keyword \in severity_tiers[i].keywords :
                          Contains(primary_finding, FindingChars(keyword))
    IN  IF matches(4) THEN severity_tiers[4].returns
        ELSE IF \E i \in 1..Len(severity_tiers) : matches(i)
        THEN severity_tiers[CHOOSE i \in 1..Len(severity_tiers) :
                                matches(i) /\ \A j \in 1..(i - 1) : ~ matches(j)].returns
        ELSE 10

\* _calculate_severity_score: primary_finding is the characters of the label
\* in lower case; the first list with a keyword in it decides, 0.1 when none
_calculate_severity_score(primary_finding) ==
    LET matches(i) == \E keyword \in severity_tiers[i].keywords :
                          Contains(primary_finding, FindingChars(keyword))
    IN  IF \E i \in 1..Len(severity_tiers) : matches(i)
        THEN severity_tiers[CHOOSE i \in 1..Len(severity_tiers) :
                                matches(i) /\ \A j \in 1..(i - 1) : ~ matches(j)].returns
        ELSE 10

\* _score_to_level: the cutoffs are literals of the function
_score_to_level(score) ==
    IF score >= 7500 THEN "RED"
    ELSE IF score >= 4000 THEN "AMBER"
    ELSE "GREEN"

\* _has_severe_symptoms, for the symptom texts of the model
_has_severe_symptoms(symptoms) == symptoms = "severe pain"

\* a triage result; triage_score is NoNum where the dict has no such key
TriageResult(level, confidence, triage_score, method, error, partial) ==
    [ raised |-> FALSE, level |-> level, confidence |-> confidence,
      triage_score |-> triage_score, method |-> method, error |-> error,
      partial |-> partial ]

\* an exception leaving a function of the agent
TriageRaised ==
    [ raised |-> TRUE, level |-> None, confidence |-> 0, triage_score |-> NoNum,
      method |-> None, error |-> TRUE, partial |-> FALSE ]

\* detection.get("score"), then detection.get("confidence", 0.0)
ScoreOf(detection) ==
    IF detection.score.kind = "none" THEN 0 ELSE detection.score.val

\* _apply_dynamic_rules: max() of a float and a score that is no number raises
\* TypeError; triage_config is a parameter the body does not read
_apply_dynamic_rules(detections, symptoms, triage_config) ==
    IF detections = << >>
    THEN LET total_score == IF symptoms # None /\ _has_severe_symptoms(symptoms)
                            THEN 3000 ELSE 0
         IN  TriageResult(_score_to_level(total_score), 80, NoNum, None,
                          FALSE, FALSE)
    ELSE IF \E i \in 1..Len(detections) : detections[i].score.kind = "str"
    THEN TriageRaised
    ELSE LET contribution(d) ==
                 70 * ScoreOf(d)
                     + 30 * _calculate_severity_score(lower(FindingChars(d.label)))
             most == MaxOf({ contribution(detections[i]) : i \in 1..Len(detections) }
                           \cup { 0 })
             max_confidence ==
                 MaxOf({ ScoreOf(detections[i]) : i \in 1..Len(detections) }
                       \cup { 0 })
             total_triage_score ==
                 IF symptoms # None /\ _has_severe_symptoms(symptoms)
                 THEN MinOf({ 10000, most + 1000 }) ELSE most
         IN  TriageResult(_score_to_level(total_triage_score), max_confidence,
                          Num(total_triage_score), "dynamic_scoring", FALSE, FALSE)

\* RED > AMBER > GREEN, AMBER for any other level
level_priority(level) ==
    CASE level = "RED" -> 3 [] level = "GREEN" -> 1 [] OTHER -> 2

\* a combination that takes the level of the LLM whatever the rules found
_combine_assessments_llm_level(rule_result, llm_result) ==
    TriageResult(llm_result.level,
                 MaxOf({ rule_result.confidence, llm_result.confidence }) * 80,
                 NoNum, "combined", FALSE, FALSE)

\* _combine_assessments: the combined dict has no triage_score
_combine_assessments(rule_result, llm_result) ==
    LET final_level ==
            IF level_priority(rule_result.level) >= level_priority(llm_result.level)
            THEN rule_result.level ELSE llm_result.level
        combined_confidence ==
            IF rule_result.level = llm_result.level
            THEN MinOf({ 10000,
                         (rule_result.confidence + llm_result.confidence) * 50 + 1000 })
            ELSE MaxOf({ rule_result.confidence, llm_result.confidence }) * 80
    IN  TriageResult(final_level, combined_confidence, NoNum, "combined",
                     FALSE, FALSE)

\* get_triage_config(request_id)
get_triage_config(request_id) ==
    LET config == IF request_id # None THEN ConfigOf(request_id)
                  ELSE default_config
    IN  [ red_threshold |-> config.triage_red_threshold,
          amber_threshold |-> config.triage_amber_threshold,
          high_confidence_threshold |-> config.triage_high_confidence_threshold ]

\* whether classify_urgency awaits groq_service.generate_triage_assessment
ConsultsLLM(detections, symptoms, request_id) ==
    LET triage_config == get_triage_config(request_id)
        rule_result == _apply_dynamic_rules(detections, symptoms, triage_config)
    IN  /\ ~ rule_result.raised
        /\ rule_result.confidence < triage_config.high_confidence_threshold

\* classify_urgency, llm_result being what generate_triage_assessment answers
classify_urgency(detections, symptoms, request_id, llm_result) ==
    LET triage_config == get_triage_config(request_id)
        rule_result == _apply_dynamic_rules(detections, symptoms, triage_config)
    IN  IF rule_result.raised
        THEN TriageResult("AMBER", 0, NoNum, "fallback", TRUE, TRUE)
        ELSE IF rule_result.confidence >= triage_config.high_confidence_threshold
        THEN [ rule_result EXCEPT !.method = "rules",
                                  !.confidence = 100 * rule_result.confidence ]
        ELSE _combine_assessments(rule_result, llm_result)

\* process_triage_request: classify_urgency catches every Exception, so the
\* except branch of this function (method "error_fallback") is not entered
process_triage_request(detections, symptoms, upstream_partial, request_id, llm_result) ==
    LET result == classify_urgency(detections, symptoms, request_id, llm_result)
    IN  IF upstream_partial \/ result.error
        THEN [ result EXCEPT !.partial = TRUE ] ELSE result

\* what generate_triage_assessment answers: an assessment of the model, or its
\* own fallback when the API call fails
LLMAnswers ==
    { [ level |-> "RED", confidence |-> 90 ],
      [ level |-> "GREEN", confidence |-> 90 ],
      [ level |-> "AMBER", confidence |-> 0 ] }

\* the detection lists of the callers that pass a detector's output: none, one
\* with a low score, two with a high score, one whose score is no number
KernelDetections ==
    { << >>,
      << Detection("fracture", Num(50)) >>,
      << Detection("fracture", Num(85)) >>,
      << Detection("displaced_fracture", Num(95)) >>,
      << Detection("fracture", NotANum) >> }

SymptomTexts == { None, "severe pain" }

\* the lists handle_triage_step builds in place of the detectors' output
mock_hand_detections ==
    << Detection("fracture", Num(85)), Detection("hairline_fracture", Num(72)) >>
mock_leg_detections ==
    << Detection("displaced_fracture", Num(91)) >>

\* a detector step as handle_triage_step finds it (Absent: not in the graph),
\* with the detections its stage returned to _execute_step
DetectorOutcomes(found) ==
    { [ status |-> Absent, detections_json |-> FALSE, detections |-> << >> ],
      [ status |-> ERROR, detections_json |-> FALSE, detections |-> << >> ],
      [ status |-> OK, detections_json |-> TRUE, detections |-> << >> ],
      [ status |-> OK, detections_json |-> TRUE, detections |-> found ] }

\* all_detections and upstream_partial of handle_triage_step
HandlerDetections(hand_step, leg_step) ==
    ( IF hand_step.status = OK /\ hand_step.detections_json
      THEN mock_hand_detections ELSE << >> )
    \o ( IF leg_step.status = OK /\ leg_step.detections_json
         THEN mock_leg_detections ELSE << >> )

HandlerUpstreamPartial(hand_step, leg_step) ==
    \/ hand_step.status \in { ERROR, TIMEOUT }
    \/ leg_step.status \in { ERROR, TIMEOUT }

\* the detections the detector steps that ended OK returned
DetectorDetections(hand_step, leg_step) ==
    ( IF hand_step.status = OK THEN hand_step.detections ELSE << >> )
    \o ( IF leg_step.status = OK THEN leg_step.detections ELSE << >> )

\* one call of the kernel as triage_calls keeps it
TriageCall(via, detector_detections, detections, symptoms, request_id, llm_result) ==
    [ via |-> via, detector_detections |-> detector_detections,
      detections |-> detections, symptoms |-> symptoms,
      request_id |-> request_id, policy |-> get_triage_config(request_id),
      llm_result |-> IF ConsultsLLM(detections, symptoms, request_id)
                     THEN llm_result ELSE [ level |-> None, confidence |-> 0 ],
      result |-> process_triage_request(detections, symptoms, FALSE, request_id,
                                        llm_result) ]

\* triage_agent.process_triage_request called with a detector's output, as
\* api/analyze.py and app/mcp/server.py do
ProcessTriageRequest(detections, symptoms, request_id, llm_result) ==
    /\ Len(triage_calls) < MaxTriageCalls
    /\ triage_calls' = Append(triage_calls,
          TriageCall("direct", detections, detections, symptoms, request_id,
                     llm_result))
    /\ UNCHANGED << stored_files, audit_logs, default_config, tasks, touched,
                    retry_call, rules_call, age, step_handlers,
                    active_requests,
                    active_configs, request, step_graph, exec, invoked, pc,
                    response, exception, faults >>

\* handle_triage_step: the kernel is called with the lists built from the
\* detector steps' status, and without a request id
HandleTriageStep(hand_step, leg_step, symptoms, llm_result) ==
    /\ Len(triage_calls) < MaxTriageCalls
    /\ triage_calls' = Append(triage_calls,
          [ TriageCall("handler", DetectorDetections(hand_step, leg_step),
                       HandlerDetections(hand_step, leg_step), symptoms, None,
                       llm_result)
            EXCEPT !.result =
                process_triage_request(HandlerDetections(hand_step, leg_step),
                    symptoms, HandlerUpstreamPartial(hand_step, leg_step), None,
                    llm_result) ])
    /\ UNCHANGED << stored_files, audit_logs, default_config, tasks, touched,
                    retry_call, rules_call, age, step_handlers,
                    active_requests,
                    active_configs, request, step_graph, exec, invoked, pc,
                    response, exception, faults >>

\* the overrides of the ADVANCED request the kernel is called for
TriagePolicyOverrides ==
    { [ NoOverrides EXCEPT !.triage_red_threshold = Num(50) ],
      [ NoOverrides EXCEPT !.triage_amber_threshold = Num(30) ] }

TriageNext ==
    \/ \E overrides \in TriagePolicyOverrides :
          PolicyGetConfigForRequest(ReqId, ADVANCED, overrides)
    \/ \E detections \in KernelDetections, symptoms \in SymptomTexts,
          request_id \in { None, ReqId }, llm_result \in LLMAnswers :
            ProcessTriageRequest(detections, symptoms, request_id, llm_result)
    \/ \E hand_step \in DetectorOutcomes(<< Detection("fracture", Num(50)) >>),
          leg_step \in DetectorOutcomes(<< Detection("displaced_fracture", Num(95)) >>),
          symptoms \in SymptomTexts, llm_result \in LLMAnswers :
            HandleTriageStep(hand_step, leg_step, symptoms, llm_result)

TriageSpec == Init /\ [][TriageNext]_vars

\* C23 (as claimed): the triage kernel is deterministic: two calls with the
\* same detections, symptoms and policy return the same level, score and
\* confidence, whatever the LLM assessment service answered.
C23_TriageKernelDeterministic ==
    \A i, j \in 1..Len(triage_calls) :
        ( /\ triage_calls[i].detections = triage_calls[j].detections
          /\ triage_calls[i].symptoms = triage_calls[j].symptoms
          /\ triage_calls[i].policy = triage_calls[j].policy )
        => /\ triage_calls[i].result.level = triage_calls[j].result.level
           /\ triage_calls[i].result.triage_score = triage_calls[j].result.triage_score
           /\ triage_calls[i].result.confidence = triage_calls[j].result.confidence

\* C24 (as claimed): the triage kernel never raises, and whenever an exception
\* occurred inside it (a detection whose score is no number, a failed LLM
\* call) its result is the fallback: level AMBER, confidence 0.0, method
\* error_fallback.
C24_TriageFallbackOnInternalError ==
    \A i \in 1..Len(triage_calls) :
        LET call == triage_calls[i]
            failed ==
                \/ \E k \in 1..Len(call.detections) :
                      call.detections[k].score.kind = "str"
                \/ call.llm_result = [ level |-> "AMBER", confidence |-> 0 ]
        IN  /\ ~ call.result.raised
            /\ failed => /\ call.result.level = "AMBER"
                         /\ call.result.confidence = 0
                         /\ call.result.method = "error_fallback"

\* C25 (as claimed): the level of a scored result is the score's place among
\* the cutoffs of the policy of the call's request (RED from the red cutoff,
\* AMBER from the amber cutoff, GREEN below), and the default policy's cutoffs
\* are 0.75 and 0.40.
C25_LevelFromPolicyCutoffs ==
    \A i \in 1..Len(triage_calls) :
        LET call == triage_calls[i]
        IN  /\ call.request_id = None =>
                  /\ call.policy.red_threshold = 75
                  /\ call.policy.amber_threshold = 40
            /\ call.result.triage_score.kind = "num" =>
                  call.result.level =
                      IF call.result.triage_score.val
                            >= 100 * call.policy.red_threshold
                          THEN "RED"
                      ELSE IF call.result.triage_score.val
                                  >= 100 * call.policy.amber_threshold
                          THEN "AMBER"
                      ELSE "GREEN"

\* C26 (as claimed): the detections handle_triage_step gives to the kernel
\* are the detections the detector steps that ended OK returned.
C26_TriageFedByDetectors ==
    \A i \in 1..Len(triage_calls) :
        triage_calls[i].via = "handler" =>
            triage_calls[i].detections = triage_calls[i].detector_detections

----------------------------------------------------------------------------
(* StorageService and TelemetryService as the orchestrator leaves them      *)

\* retrieve_file: the bytes of a file the store holds (kept as its id), or None
retrieve_file(file_id) ==
    IF file_id \in stored_files THEN << "bytes of", file_id >> ELSE None

\* C27 (as claimed): every artifact id in the artifacts mapping of a returned
\* response is the id of a file the Artifact Store holds: retrieve_file gives
\* its bytes.
C27_ResponseArtifactsRetrievable ==
    response # NoResponse =>
        \A artifact \in response.artifacts : retrieve_file(artifact[2]) # None

\* C28 (as claimed): every transition of a step is in the telemetry: a step
\* that was started (or skipped, or failed) has an audit entry with the
\* request's id and the step's name.
C28_TelemetrySeesEveryTransition ==
    step_graph # NoGraph =>
        \A i \in 1..Len(step_graph.steps) :
            step_graph.steps[i].status # PENDING =>
                \E k \in 1..Len(audit_logs) :
                    /\ audit_logs[k].request_id = step_graph.request_id
                    /\ audit_logs[k].step = step_graph.steps[i].name

\* C29 (as claimed): the status of a step is one-way terminal: a step that is
\* OK or SKIPPED keeps that status, and a step that is ERROR or TIMEOUT keeps
\* it or goes back to PENDING by the retry reset.
C29_StatusOneWayTerminal ==
    [][ \A s \in StepName :
          /\ Status(s) \in { OK, SKIPPED } => Status(s)' = Status(s)
          /\ Status(s) \in { ERROR, TIMEOUT } => Status(s)' \in { Status(s), PENDING }
      ]_vars

\* get_request_status: the StepGraph object stored for the request (the one
\* _execute_step is changing), or None
get_request_status(request_id) ==
    IF request_id \in active_requests THEN step_graph ELSE NoGraph

\* C30 (as claimed): two status queries, one before and one after a step of
\* the request's coroutine, never show a step first RUNNING, ERROR or TIMEOUT
\* and then PENDING with started_at, completed_at and error_message cleared.
C30_ResetNeverObserved ==
    [][ LET before == get_request_status(ReqId)
            after  == get_request_status(ReqId)'
        IN  (before # NoGraph /\ after # NoGraph) =>
                \A s \in StepName :
                    ( /\ HasStep(before, s) /\ HasStep(after, s)
                      /\ get_step(before, s).status \in { RUNNING, ERROR, TIMEOUT } )
                    => ~ ( /\ get_step(after, s).status = PENDING
                           /\ ~ get_step(after, s).started_at
                           /\ ~ get_step(after, s).completed_at
                           /\ get_step(after, s).error_message = None )
      ]_vars

----------------------------------------------------------------------------
(* The order of the stages within one request                               *)

\* the steps _process_auto_mode and _process_guided_mode await one after the
\* other, in the order of their _execute_step calls
SequentialSteps == << VALIDATE, ROUTE, TRIAGE, DIAGNOSE, REPORT, HOSPITALS >>

\* the steps a step of the sequence comes after: the earlier steps of the
\* sequence, for TRIAGE the detectors too, for HOSPITALS every other step
StepsBefore(i) ==
    { SequentialSteps[j] : j \in 1..(i - 1) }
        \cup (IF SequentialSteps[i] \in { TRIAGE, HOSPITALS } THEN Detectors ELSE {})

\* C31: at most one of VALIDATE, ROUTE, TRIAGE, DIAGNOSE, REPORT, HOSPITALS is
\* RUNNING at a time, and while one of them is RUNNING (or waits PENDING for
\* its retry) every step of the graph before it in that order, and for TRIAGE
\* every detector step of the graph, is in a terminal status; a HOSPITALS that
\* is started finds every other step of the graph terminal.
C31_SequentialStepsOneAtATime ==
    \A i \in 1..Len(SequentialSteps) :
        (Status(SequentialSteps[i]) = RUNNING
            \/ exec[SequentialSteps[i]].at \in { "await", "overdue", "sleep", "completed" }) =>
            /\ \A j \in 1..Len(SequentialSteps) :
                  j # i => Status(SequentialSteps[j]) # RUNNING
            /\ \A s \in StepsBefore(i) :
                  Status(s) \in TerminalStatuses \cup { "absent" }
            /\ \A j \in (i + 1)..Len(SequentialSteps) :
                  Status(SequentialSteps[j]) \in { PENDING, SKIPPED, "absent" }

\* HOSPITALS is RUNNING after both detectors and the four stages before it ended
C31_Witness ==
    /\ Status(HOSPITALS) = RUNNING
    /\ Status(DETECT_HAND) \in TerminalStatuses
    /\ Status(DETECT_LEG) \in TerminalStatuses
    /\ \A j \in 1..5 : Status(SequentialSteps[j]) \in TerminalStatuses

----------------------------------------------------------------------------
(* The retry decision asked on its own                                      *)

\* the largest max_retries of a step policy, and the largest retry count asked
MaxMaxRetries == 2
MaxRetryCount == 3

\* step policies of every retry policy, max_retries from -1 up
StepPolicies ==
    { StepPolicy(2, rp, mr, fatal, FALSE) :
        rp \in RetryPolicy, mr \in (-1)..MaxMaxRetries, fatal \in BOOLEAN }

\* error kinds: the "timeout" of _execute_step and exception type names
ErrorKinds ==
    { "timeout", "TimeoutError", "ConnectionError", "TemporaryFailure", "rate_limit",
      "RATE_LIMIT", "RateLimitError", "TimedOut", "ValueError", "" }

\* policy.should_retry(current_retry_count, error_type)
ShouldRetry(policy, current_retry_count, error_type) ==
    /\ retry_call' = [ fn |-> "should_retry", step_name |-> None, policy |-> policy,
                       current_retry_count |-> current_retry_count,
                       error_type |-> error_type,
                       result |-> should_retry(policy, current_retry_count, error_type) ]
    /\ UNCHANGED << triage_calls, stored_files, audit_logs, default_config, tasks, touched,
                    rules_call, age, step_handlers,
                    active_requests,
                    active_configs, request, step_graph, exec, invoked, pc, response,
                    exception, faults >>

\* policy_service.should_retry_step(request_id, step_name, current_retry_count, error_type)
ShouldRetryStep(request_id, step_name, current_retry_count, error_type) ==
    /\ retry_call' = [ fn |-> "should_retry_step", step_name |-> step_name,
                       policy |-> get_step_policy(ConfigOf(request_id), step_name),
                       current_retry_count |-> current_retry_count,
                       error_type |-> error_type,
                       result |-> should_retry_step(request_id, step_name,
                                                    current_retry_count, error_type) ]
    /\ UNCHANGED << triage_calls, stored_files, audit_logs, default_config, tasks, touched,
                    rules_call, age, step_handlers,
                    active_requests,
                    active_configs, request, step_graph, exec, invoked, pc, response,
                    exception, faults >>

RetryNext ==
    \/ \E p \in StepPolicies, n \in 0..MaxRetryCount, e \in ErrorKinds : ShouldRetry(p, n, e)
    \/ \E s \in StepName, n \in 0..MaxRetryCount, e \in ErrorKinds :
          ShouldRetryStep(ReqId, s, n, e)

RetrySpec == Init /\ [][RetryNext]_vars

\* the error kinds of ErrorKinds that contain, whatever the case of their
\* letters, one of timeout, connection, temporary, rate_limit
TransientKinds ==
    { "timeout", "TimeoutError", "ConnectionError", "TemporaryFailure", "rate_limit",
      "RATE_LIMIT" }

\* C32: should_retry answers true exactly when retry_count < max_retries, the
\* policy is not NEVER, a ONCE policy is at retry count 0 and, under an
\* EXPONENTIAL policy, the error kind contains one of timeout, connection,
\* temporary, rate_limit in any case of letters; should_retry_step answers the
\* same from the step's policy, and false whatever the input for TRIAGE.
C32_ShouldRetryIff ==
    retry_call # NoRetryCall =>
        LET p == retry_call.policy
            n == retry_call.current_retry_count
            expected ==
                /\ n < p.max_retries
                /\ p.retry_policy # NEVER
                /\ p.retry_policy = ONCE => n = 0
                /\ p.retry_policy = EXPONENTIAL => retry_call.error_type \in TransientKinds
        IN  IF retry_call.step_name = TRIAGE
            THEN retry_call.result = FALSE
            ELSE retry_call.result = expected

\* a ONCE policy with max_retries 2 asked at retry count 1 answers false
C32_Witness ==
    /\ retry_call # NoRetryCall
    /\ retry_call.fn = "should_retry"
    /\ retry_call.policy.retry_policy = ONCE
    /\ retry_call.policy.max_retries = 2
    /\ retry_call.current_retry_count = 1
    /\ retry_call.result = FALSE

----------------------------------------------------------------------------
(* The dynamic-scoring rules called on their own                            *)

\* detections of one list given to _apply_dynamic_rules
MaxDetections == 2

\* labels of every severity list, of two lists at once, of none, in both cases
FindingLabels ==
    { "Open crack", "fracture detected", "unlikely fracture", "Hairline crack",
      "no fracture", "fracture" }

\* detection scores in hundredths; 130 is a score above 1.0
DetectionScores == { 0, 55, 90, 130 }

DetectionLists ==
    UNION { [ 1..n -> { Detection(l, Num(s)) : l \in FindingLabels, s \in DetectionScores } ] :
            n \in 0..MaxDetections }

\* self._apply_dynamic_rules(detections, symptoms, None, triage_config): the
\* function reads nothing but its arguments, so one call is followed
ApplyDynamicRules(detections, symptoms) ==
    /\ rules_call = NoRulesCall
    /\ rules_call' = [ fn |-> "_apply_dynamic_rules", detections |-> detections,
                       symptoms |-> symptoms,
                       result |-> _apply_dynamic_rules(detections, symptoms,
                                                       get_triage_config(None)) ]
    /\ UNCHANGED << triage_calls, stored_files, audit_logs, default_config, tasks, touched,
                    retry_call, age, step_handlers,
                    active_requests, active_configs, request, step_graph, exec, invoked,
                    pc, response, exception, faults >>

ScoreNext ==
    \E detections \in DetectionLists, symptoms \in SymptomTexts :
        ApplyDynamicRules(detections, symptoms)

ScoreSpec == Init /\ [][ScoreNext]_vars

\* the severity the first matching list gives each label of FindingLabels
ExpectedSeverity(label) ==
    CASE label = "Open crack"        -> 30
      [] label = "fracture detected" -> 20
      [] label = "Hairline crack"    -> 20
      [] label = "unlikely fracture" -> 10
      [] label = "no fracture"       -> 0
      [] label = "fracture"          -> 10

\* C33: for a non-empty detection list the triage score of the dynamic rules is
\* the largest 0.7 * score + 0.3 * severity(label) of its detections, plus 0.10
\* capped at 1.0 under a severe symptom, severity being what the first matching
\* keyword list gives (0.10 when none matches), and the confidence is the
\* largest detection score; for an empty list the confidence is 0.8 and the
\* level is that of score 0.0, or of 0.3 under a severe symptom.
C33_DynamicScore ==
    rules_call # NoRulesCall =>
        LET ds == rules_call.detections
            severe == rules_call.symptoms = "severe pain"
            best == MaxOf({ 70 * ds[i].score.val + 30 * ExpectedSeverity(ds[i].label) :
                              i \in 1..Len(ds) })
        IN  IF ds = << >>
            THEN /\ rules_call.result.confidence = 80
                 /\ rules_call.result.level = _score_to_level(IF severe THEN 3000 ELSE 0)
            ELSE /\ rules_call.result.triage_score
                        = Num(IF ~ severe THEN best
                              ELSE IF best + 1000 > 10000 THEN 10000 ELSE best + 1000)
                 /\ rules_call.result.confidence
                        = MaxOf({ ds[i].score.val : i \in 1..Len(ds) })

\* two detections, the second the larger contribution by its severity alone,
\* under a severe symptom: 0.7 * 0.55 + 0.3 * 0.20 + 0.10 = 0.545
C33_Witness ==
    /\ rules_call # NoRulesCall
    /\ rules_call.detections
          = << Detection("no fracture", Num(55)), Detection("Hairline crack", Num(55)) >>
    /\ rules_call.symptoms = "severe pain"
    /\ rules_call.result.triage_score = Num(5450)
    /\ rules_call.result.confidence = 55

----------------------------------------------------------------------------
(* The artifacts of the response                                            *)

\* C34 (as claimed): no two steps of the graph of a returned response hold an
\* artifact under the same key, and the flat artifacts mapping of the response
\* holds every artifact id recorded on a step, also when both DETECT_HAND and
\* DETECT_LEG ended OK.
C34_ArtifactKeysStepScoped ==
    response # NoResponse =>
        LET steps == response.step_graph.steps
        IN  /\ \A i, j \in 1..Len(steps) :
                  i # j => \A a \in steps[i].artifacts, b \in steps[j].artifacts :
                               a[1] # b[1]
            /\ \A i \in 1..Len(steps) :
                  \A a \in steps[i].artifacts :
                      \E b \in response.artifacts : b[2] = a[2]

----------------------------------------------------------------------------
(* StepGraph.add_step called on its own                                     *)

\* the steps of a graph add_step is called on
MaxGraphSteps == 7

\* a StepGraph as _create_step_graph builds it for a request, with the
\* bindings the function makes in the policy registry
NewStepGraph(req) ==
    /\ step_graph = NoGraph
    /\ step_graph' = _create_step_graph(req)
    /\ active_configs' =
          LET c == get_config_for_request(req.mode, RequestOverrides(req))
          IN  [ id \in DOMAIN active_configs \cup { TempId, ReqId } |-> c ]
    /\ default_config' = get_config_for_request_default(req.mode, RequestOverrides(req))
    /\ UNCHANGED << triage_calls, stored_files, audit_logs, tasks, touched, retry_call,
                    rules_call, age, step_handlers, active_requests, request,
                    exec, invoked, pc, response, exception, faults >>

\* step_graph.add_step(step_name)
AddStep(step_name) ==
    /\ step_graph # NoGraph
    /\ Len(step_graph.steps) < MaxGraphSteps
    /\ step_graph' = add_step(step_graph, step_name)
    /\ UNCHANGED << services, step_handlers, active_requests, active_configs, request,
                    exec, invoked, pc, response, exception, faults >>

GraphNext ==
    \/ \E req \in Requests : NewStepGraph(req)
    \/ \E s \in StepName : AddStep(s)

GraphSpec == Init /\ [][GraphNext]_vars

\* C35 (as claimed): add_step appends a PENDING step when the graph has none of
\* that name and fails, leaving the graph as it is, when it has one, so the
\* step names of a graph stay unique after any sequence of add_step calls.
C35_StepNamesUnique ==
    step_graph # NoGraph =>
        \A i, j \in 1..Len(step_graph.steps) :
            step_graph.steps[i].name = step_graph.steps[j].name => i = j

----------------------------------------------------------------------------
(* cleanup_completed_requests: the sweep of the active-requests table       *)

\* the requests of the sweep's specification: AUTO, with and without consent
SweepRequests ==
    { ProcessingRequest(AUTO, g, NoOverrides, NoNum, << >>) : g \in BOOLEAN }

\* time passes after the request's coroutine ended: now is more than
\* max_age_hours after step_graph.updated_at
TimePasses ==
    /\ pc \in { "done", "raised" }
    /\ age = "fresh"
    /\ age' = "aged"
    /\ UNCHANGED << triage_calls, stored_files, audit_logs, default_config, tasks, touched,
                    retry_call, rules_call,
                    step_handlers, active_requests, active_configs, request, step_graph,
                    exec, invoked, pc, response, exception, faults >>

\* cleanup_completed_requests(max_age_hours): a request that is_complete() and
\* older than the cutoff leaves active_requests, and cleanup_request_config
\* deletes the binding of its id
cleanup_completed_requests ==
    /\ pc \in { "done", "raised" }
    /\ age = "aged"
    /\ LET to_remove == { request_id \in active_requests :
                            is_complete(step_graph) /\ age = "aged" }
       IN  /\ active_requests' = active_requests \ to_remove
           /\ active_configs' = [ id \in DOMAIN active_configs \ to_remove |->
                                    active_configs[id] ]
    /\ age' = "swept"
    /\ UNCHANGED << triage_calls, stored_files, audit_logs, default_config, tasks, touched,
                    retry_call, rules_call,
                    step_handlers, request, step_graph, exec, invoked, pc, response,
                    exception, faults >>

SweepNext ==
    \/ \E table \in HandlerTables : register_all_handlers(table)
    \/ \E req \in SweepRequests : process_request(req)
    \/ \E s \in StepName : ExecuteStep(s)
    \/ \E s \in StepName : \E r \in StageResults(s) : StageReturns(s, r)
    \/ \E s \in StepName : BodyPartRaises(s)
    \/ \E s \in StepName : \E e \in StageErrors : StageRaises(s, e)
    \/ \E s \in StepName : StageTimesOut(s)
    \/ \E s \in StepName : StageIgnoresTimeout(s)
    \/ \E s \in StepName : RetryAfterSleep(s)
    \/ AutoAfterValidate
    \/ AutoAfterRoute
    \/ AutoAfterDetect
    \/ \E p, n \in StepName : AutoSequence(p, n)
    \/ AutoAfterReport
    \/ AutoAfterHospitals
    \/ Cancel
    \/ TimePasses
    \/ cleanup_completed_requests

SweepSpec == Init /\ [][SweepNext]_vars

\* C36 (as claimed): a request whose processing has finished, also one stopped
\* by a fatal VALIDATE or ROUTE failure, is gone from the active-requests table
\* and from the policy bindings once a sweep has run after it aged past
\* max_age_hours.
C36_FinishedRequestsSwept ==
    (pc = "done" /\ age = "swept") =>
        /\ ReqId \notin active_requests
        /\ ReqId \notin DOMAIN active_configs

----------------------------------------------------------------------------
(* Requests constructed and executed concurrently                           *)

\* one more request of `owner` touched the key of the binding table
Touch(table, key, owner) ==
    [ k \in DOMAIN table \cup { key } |->
        IF k = key THEN (IF k \in DOMAIN table THEN table[k] ELSE {}) \cup { owner }
        ELSE table[k] ]

\* _create_step_graph(req) of the task whose graph gets the id request_id: it
\* has no await, so it runs from its first line to its last without another
\* task in between.  It binds the config to the temporary id, reads the
\* thresholds and timeouts of the snapshot back under the temporary id, and
\* binds the config to the graph's own id.
CreateStepGraphFor(request_id, req) ==
    /\ tasks[request_id] = NoTask
    /\ LET policy_config == get_config_for_request(req.mode, RequestOverrides(req))
           bound == [ id \in DOMAIN active_configs \cup { TempId } |->
                        IF id = TempId THEN policy_config ELSE active_configs[id] ]
       IN  /\ tasks' = [ tasks EXCEPT ![request_id] =
                          [ at |-> "created", request |-> req,
                            config_hash |-> policy_config.config_hash,
                            thresholds |-> get_detection_thresholds(bound[TempId]),
                            timeouts |-> get_config_timeouts(bound[TempId]),
                            timeout_read |-> None ] ]
           /\ active_configs' =
                 [ id \in DOMAIN bound \cup { request_id } |->
                     IF id = request_id
                     THEN get_config_for_request(req.mode, RequestOverrides(req))
                     ELSE bound[id] ]
    /\ touched' = Touch(Touch(touched, TempId, request_id), request_id, request_id)
    /\ default_config' = get_config_for_request_default(req.mode, RequestOverrides(req))
    /\ UNCHANGED << triage_calls, stored_files, audit_logs, retry_call, rules_call,
                    age, step_handlers, active_requests, request,
                    step_graph, exec, invoked, pc, response, exception, faults >>

\* policy_service.get_step_timeout(step_graph.request_id, step_name) at the
\* start of an _execute_step of that task
GetStepTimeoutFor(request_id, step_name) ==
    /\ tasks[request_id] # NoTask
    /\ tasks' = [ tasks EXCEPT ![request_id].timeout_read =
                    << step_name, get_step_timeout(request_id, step_name) >> ]
    /\ touched' = Touch(touched, request_id, request_id)
    /\ UNCHANGED << triage_calls, stored_files, audit_logs, retry_call, rules_call,
                    default_config, age, step_handlers, active_requests, active_configs,
                    request, step_graph, exec, invoked, pc, response, exception, faults >>

ConcurrentNext ==
    \/ \E request_id \in ConcurrentIds, req \in Requests :
          CreateStepGraphFor(request_id, req)
    \/ \E request_id \in ConcurrentIds, step_name \in StepName :
          GetStepTimeoutFor(request_id, step_name)

ConcurrentSpec == Init /\ [][ConcurrentNext]_vars

\* the config of a request, derived from its own mode and overrides
OwnConfig(req) ==
    IF req.mode = ADVANCED /\ RequestOverrides(req) # NoOverrides
    THEN apply_overrides(_load_default_config, RequestOverrides(req))
    ELSE _load_default_config

\* C37 (as claimed): every key of the binding table is written and read for
\* one request only, and the config a request reads for its snapshot and for
\* its step timeouts is the one derived from its own mode and overrides.
C37_BindingKeysOwnedByOneRequest ==
    /\ \A key \in DOMAIN touched : Cardinality(touched[key]) <= 1
    /\ \A request_id \in ConcurrentIds :
          tasks[request_id] # NoTask =>
              LET own == OwnConfig(tasks[request_id].request)
              IN  /\ tasks[request_id].config_hash = own.config_hash
                  /\ tasks[request_id].thresholds = get_detection_thresholds(own)
                  /\ tasks[request_id].timeouts = get_config_timeouts(own)
                  /\ tasks[request_id].timeout_read # None =>
                        tasks[request_id].timeout_read[2]
                            = get_step_policy(own, tasks[request_id].timeout_read[1])
                                  .timeout_seconds

----------------------------------------------------------------------------
(* The default config of the registry                                       *)

----------------------------------------------------------------------------
(* The retry loop of _execute_step under any step policy                    *)

\* the steps whose _execute_step is called on its own
LoopSteps == { ROUTE, TRIAGE, DIAGNOSE }

\* step policies with max_retries from 0 up
LoopPolicies == { p \in StepPolicies : p.max_retries >= 0 }

\* exception types of the loop: one that is transient, one that is not
LoopErrors == { "ConnectionError", "ValueError" }

\* _execute_step(step_graph, step_name, request) on the graph of a new request
\* whose config has `policy` as the policy of that step
CallExecuteStep(step_name, policy) ==
    /\ pc = "idle"
    /\ LET req == ProcessingRequest(AUTO, FALSE, NoOverrides, NoNum, << >>)
           config == PolicyConfiguration(
                         default_config.router_threshold,
                         default_config.detector_score_min,
                         default_config.triage_red_threshold,
                         default_config.triage_amber_threshold,
                         NoList, default_config.max_retries,
                         [ default_config.step_policies EXCEPT ![step_name] = policy ])
       IN  /\ request' = req
           /\ step_graph' = _create_step_graph(req)
           /\ active_configs' =
                 [ id \in DOMAIN active_configs \cup { TempId, ReqId } |->
                     IF id = ReqId THEN config ELSE default_config ]
    /\ active_requests' = active_requests \cup { ReqId }
    /\ pc' = "execute"
    /\ exec' = Call(exec, step_name)
    /\ UNCHANGED << services, step_handlers, invoked, response, exception, faults >>

\* what the event loop and a stage that returns, raises or is timed out do
LoopProgress ==
    \/ \E s \in StepName : ExecuteStep(s)
    \/ \E s \in StepName : \E r \in StageResults(s) : StageReturns(s, r)
    \/ \E s \in StepName : BodyPartRaises(s)
    \/ \E s \in StepName : exec[s].at = "overdue" /\ StageTimesOut(s)
    \/ \E s \in StepName : RetryAfterSleep(s)

LoopNext ==
    \/ \E table \in HandlerTables : register_all_handlers(table)
    \/ \E s \in LoopSteps, p \in LoopPolicies : CallExecuteStep(s, p)
    \/ \E s \in StepName : ExecuteStep(s)
    \/ \E s \in StepName : \E r \in StageResults(s) : StageReturns(s, r)
    \/ \E s \in StepName : BodyPartRaises(s)
    \/ \E s \in StepName : \E e \in LoopErrors : StageRaises(s, e)
    \/ \E s \in StepName : StageTimesOut(s)
    \/ \E s \in StepName : StageIgnoresTimeout(s)
    \/ \E s \in StepName : RetryAfterSleep(s)
    \/ Cancel

\* the stages answer: every invocation returns, raises or is timed out
LoopSpec == Init /\ [][LoopNext]_vars /\ WF_vars(LoopProgress)

\* the stage of a step was invoked at most max_retries + 1 times and the
\* step's retry_count is at most max_retries, by the policy of the step
RetriesWithinPolicy ==
    pc # "idle" =>
        \A s \in StepName :
            LET policy == get_step_policy(ConfigOf(ReqId), s)
            IN  /\ invoked[s] <= policy.max_retries + 1
                /\ s = TRIAGE => invoked[s] <= 1
                /\ HasStep(step_graph, s) =>
                      get_step(step_graph, s).retry_count <= policy.max_retries

\* C39: _execute_step ends when every stage invocation returns, raises or is
\* timed out: the stage of a step is invoked at most max_retries + 1 times, the
\* step's retry_count never exceeds the max_retries of its policy (also under
\* an EXPONENTIAL policy with transient errors only), and a called _execute_step
\* returns or the cancellation of the task ends it.
C39_RetriesBoundedAndTerminates ==
    /\ [] RetriesWithinPolicy
    /\ \A s \in LoopSteps :
          (exec[s].at = "called") ~> (exec[s].at \in { "returned", "cancelled" })

\* an EXPONENTIAL policy with max_retries 2: the stage was invoked three times
\* and its step ended with retry_count 2
C39_Witness ==
    /\ pc = "execute"
    /\ exec[DIAGNOSE].at = "returned"
    /\ get_step_policy(ConfigOf(ReqId), DIAGNOSE).retry_policy = EXPONENTIAL
    /\ get_step_policy(ConfigOf(ReqId), DIAGNOSE).max_retries = 2
    /\ invoked[DIAGNOSE] = 3
    /\ get_step(step_graph, DIAGNOSE).retry_count = 2

\* ---------------------------------------------------------------------------
\* Combining the rule-based level with the LLM assessment
\* ---------------------------------------------------------------------------

\* C40: in every call of the kernel whose rules returned a result: when the
\* rule-based confidence is below the high-confidence threshold the result is
\* the combined one and its level is never less urgent than the rule-based
\* level in the order RED > AMBER > GREEN (it is the rule-based level or the
\* more urgent level of the LLM); when the confidence is at or above the
\* threshold the LLM is not consulted and the rule-based level is returned.
C40_LLMOnlyEscalates ==
    \A i \in 1..Len(triage_calls) :
        LET call == triage_calls[i]
            rule_result ==
                _apply_dynamic_rules(call.detections, call.symptoms, call.policy)
            urgency == [ level \in { "RED", "AMBER", "GREEN" } |->
                           CASE level = "RED" -> 3
                             [] level = "AMBER" -> 2
                             [] level = "GREEN" -> 1 ]
        IN  ~ rule_result.raised =>
              IF rule_result.confidence < call.policy.high_confidence_threshold
              THEN /\ call.result.method = "combined"
                   /\ call.llm_result.level \in { "RED", "AMBER", "GREEN" }
                   /\ urgency[call.result.level] >= urgency[rule_result.level]
                   /\ urgency[call.result.level] >= urgency[call.llm_result.level]
                   /\ call.result.level \in
                          { rule_result.level, call.llm_result.level }
              ELSE /\ call.result.method = "rules"
                   /\ call.llm_result.level = None
                   /\ call.result.level = rule_result.level

\* one call below the threshold whose rule-based level is kept against a GREEN
\* answer of the LLM, and one call at or above the threshold
C40_Witness ==
    /\ \E i \in 1..Len(triage_calls) :
          LET call == triage_calls[i]
              rule_result ==
                  _apply_dynamic_rules(call.detections, call.symptoms, call.policy)
          IN  /\ ~ rule_result.raised
              /\ rule_result.confidence < call.policy.high_confidence_threshold
              /\ rule_result.level # "GREEN"
              /\ call.llm_result.level = "GREEN"
              /\ call.result.level = rule_result.level
    /\ \E i \in 1..Len(triage_calls) :
          LET call == triage_calls[i]
              rule_result ==
                  _apply_dynamic_rules(call.detections, call.symptoms, call.policy)
          IN  /\ ~ rule_result.raised
              /\ rule_result.confidence >= call.policy.high_confidence_threshold
              /\ call.result.method = "rules"
              /\ call.result.level = rule_result.level

====
